---- MODULE Spec2Model ----
(***************************************************************************)
(* Kalshi weather trading bot: condition parser, probability model,        *)
(* opportunity engine, ticker resolver, refresh caches, run loop and       *)
(* snapshot file, modelled from src/app/services/bot.py,                   *)
(* src/app/domain/opportunity.py and src/app/web/app.py.                   *)
(*                                                                         *)
(* Conventions.                                                            *)
(*  - A Python value that may be None is a sequence of length <= 1:        *)
(*    <<>> is None, <<v>> is the value v.                                  *)
(*  - A Python dict read with .get() is a record with every key the code   *)
(*    reads; an absent key holds None.                                     *)
(*  - Probabilities are integers in millionths (0.95 is 950000); expected  *)
(*    values are integers in millionths of a cent.  The arithmetic is the  *)
(*    exact rational one; binary floating point rounding is not modelled.  *)
(***************************************************************************)
EXTENDS Integers, Sequences, FiniteSets, TLC

VARIABLES
    cfg,            \* WeatherTradingBot constructor arguments (immutable)
    engIn,          \* arguments of the function call under test
    engOut,         \* what it returned (<<>> before the call)
    pc,             \* position of run_heartbeat
    now,            \* wall clock, time.time(), in ticks
    cache,          \* the three refresh caches: _cached_* and _last_*_ts
    loc,            \* local variables of the current cycle of run_heartbeat
    calls,          \* collaborator calls made so far in the current cycle
    placed,         \* place_order invocations of the current cycle
    last,           \* outcome of the step taken last
    fs,             \* the snapshot file and its '.tmp' sibling
    http,           \* last response of the web application
    fetchLog,       \* per cache: when its fetch last ran and whether it came back empty
    env,            \* the collaborators of this run: which calls may raise, which vary
    environ,        \* os.environ of the web process, as far as snapshot() reads it
    SNAPSHOT_CACHE, \* _SNAPSHOT_CACHE of the web process
    tickerArgs,     \* the resolutions of the current cycle and the ticker each call was given
    exchange        \* the exchange's book for the bot: contracts held and resting orders

vars == <<cfg, engIn, engOut, pc, now, cache, loc, calls, placed, last, fs, http,
          fetchLog, env, environ, SNAPSHOT_CACHE, tickerArgs, exchange>>

None == <<>>
Some(v) == <<v>>
IsNone(x) == x = <<>>
Val(x) == x[1]

Max(a, b) == IF a >= b THEN a ELSE b
Min(a, b) == IF a <= b THEN a ELSE b
Abs(a) == IF a < 0 THEN 0 - a ELSE a

\* One probability unit (1.0) in millionths; one cent in millionths of a cent.
Micro == 1000 * 1000

-----------------------------------------------------------------------------
(* Contract titles.  A title is a sequence of tokens; a token is a word or  *)
(* phrase (kind "word") or an integer followed by a unit marker (kind       *)
(* "temp").  The marker is the text between the digits and what follows.    *)

Word(t) == [kind |-> "word", text |-> t, num |-> 0]
Temp(n, mark) == [kind |-> "temp", text |-> mark, num |-> n]

\* re.findall(r"(-?\d+)\s*Â°?\s*F", title, re.I): the pattern in the source
\* file is the bytes C3 82 C2 B0, i.e. a mandatory 'Â' followed by an optional
\* degree sign, so a number matches when its marker is "ÂF" or "Â°F" (any
\* case, optional blanks) and does not match a plain "°F" or "F".
MarkerMatches(mark) == mark \in {"Â°F", "ÂF", "Â°f", "âF", "Â °F", "Â° F"}

RECURSIVE ExtractTemps(_)
ExtractTemps(title) ==
    IF title = <<>> THEN <<>>
    ELSE LET tok == Head(title)
             rest == ExtractTemps(Tail(title))
         IN IF tok.kind = "temp" /\ MarkerMatches(tok.text)
            THEN <<tok.num>> \o rest
            ELSE rest

\* k in title.lower(): some word token of the title contains the phrase k.
\* A word token carries exactly one phrase, already lower-cased.
Contains(title, k) ==
    \E i \in 1..Len(title) : title[i].kind = "word" /\ title[i].text = k

GteKeywords == {"at least", "or higher", "or above", "greater than", "above", ">="}
LteKeywords == {"at most", "or lower", "or below", "less than", "below", "<="}

NoCondition == [type |-> "none", threshold |-> None, low |-> None, high |-> None]

\* parse_market_condition that looks for the gte and lte keywords before the
\* range words.
parseKeywordsFirst(title) ==
    IF title = <<>> THEN NoCondition
    ELSE LET temps == ExtractTemps(title)
         IN IF \E k \in GteKeywords : Contains(title, k)
            THEN [type |-> "gte",
                  threshold |-> IF temps # <<>> THEN Some(temps[1]) ELSE None,
                  low |-> None, high |-> None]
            ELSE IF \E k \in LteKeywords : Contains(title, k)
            THEN [type |-> "lte",
                  threshold |-> IF temps # <<>> THEN Some(temps[1]) ELSE None,
                  low |-> None, high |-> None]
            ELSE IF Len(temps) >= 2 /\ (Contains(title, "between") \/ Contains(title, " to "))
            THEN [type |-> "range", threshold |-> None,
                  low |-> Some(Min(temps[1], temps[2])),
                  high |-> Some(Max(temps[1], temps[2]))]
            ELSE IF temps # <<>>
            THEN [type |-> "unknown", threshold |-> None, low |-> None, high |-> None]
            ELSE NoCondition

\* parse_market_condition(title); title is None or a token sequence.
\* The Python None result is the record of type "none".
parse_market_condition(title) ==
    IF title = <<>> THEN NoCondition
    ELSE LET temps == ExtractTemps(title)
         IN IF Len(temps) >= 2 /\ (Contains(title, "between") \/ Contains(title, " to "))
            THEN [type |-> "range", threshold |-> None,
                  low |-> Some(Min(temps[1], temps[2])),
                  high |-> Some(Max(temps[1], temps[2]))]
            ELSE IF \E k \in GteKeywords : Contains(title, k)
            THEN [type |-> "gte",
                  threshold |-> IF temps # <<>> THEN Some(temps[1]) ELSE None,
                  low |-> None, high |-> None]
            ELSE IF \E k \in LteKeywords : Contains(title, k)
            THEN [type |-> "lte",
                  threshold |-> IF temps # <<>> THEN Some(temps[1]) ELSE None,
                  low |-> None, high |-> None]
            ELSE IF temps # <<>>
            THEN [type |-> "unknown", threshold |-> None, low |-> None, high |-> None]
            ELSE NoCondition

-----------------------------------------------------------------------------
(* Probability model, in millionths.                                        *)

\* time_factor of estimate_prob_reach_threshold, in hundredths.
TimeFactor(hour) ==
    IF hour < 10 THEN 110
    ELSE IF hour < 14 THEN 115
    ELSE IF hour < 17 THEN 95
    ELSE IF hour < 20 THEN 70
    ELSE 40

\* estimate_prob_reach_threshold without the final clamp to [0.05, 0.95].
reachUnclamped(diff, hour) ==
    IF diff <= 0 THEN 950000
    ELSE Max(5, 100 - 10 * diff) * TimeFactor(hour) * 100

\* estimate_prob_reach_threshold whose early return tests diff < 0.
reachStrictDiff(diff, hour) ==
    IF diff < 0 THEN 950000
    ELSE Max(50000, Min(950000, Max(5, 100 - 10 * diff) * TimeFactor(hour) * 100))

estimate_prob_reach_threshold(diff, hour) ==
    IF diff <= 0 THEN 950000
    ELSE LET diff_factor == Max(5, 100 - 10 * diff)     \* hundredths
             prob == diff_factor * TimeFactor(hour) * 100
         IN Max(50000, Min(950000, prob))

estimate_prob_no_new_high(hour) ==
    IF hour >= 22 THEN 980000
    ELSE IF hour >= 20 THEN 950000
    ELSE IF hour >= 18 THEN 900000
    ELSE IF hour >= 16 THEN 800000
    ELSE IF hour >= 14 THEN 700000
    ELSE IF hour >= 12 THEN 600000
    ELSE 400000

\* Product of two probabilities in millionths.  estimate_prob_reach_threshold
\* is a multiple of 100 and estimate_prob_no_new_high a multiple of 10000, so
\* the division is exact.
ProbTimes(p, q) == (p \div 100) * (q \div 10000)

\* estimate_prob_yes whose gte branch tests high_today > threshold.
probYesStrictGte(condition, high_today, hour) ==
    IF condition.type # "gte" \/ IsNone(high_today) \/ IsNone(condition.threshold) THEN None
    ELSE IF Val(high_today) > Val(condition.threshold) THEN Some(990000)
    ELSE Some(estimate_prob_reach_threshold(Val(condition.threshold) - Val(high_today), hour))

\* estimate_prob_yes(condition, high_today, hour): None or Some(probability).
estimate_prob_yes(condition, high_today, hour) ==
    IF condition.type = "none" \/ IsNone(high_today) THEN None
    ELSE LET h == Val(high_today) IN
    CASE condition.type = "gte" ->
            IF IsNone(condition.threshold) THEN None
            ELSE IF h >= Val(condition.threshold) THEN Some(990000)
            ELSE Some(estimate_prob_reach_threshold(Val(condition.threshold) - h, hour))
      [] condition.type = "lte" ->
            IF IsNone(condition.threshold) THEN None
            ELSE IF h > Val(condition.threshold) THEN Some(10000)
            ELSE IF h = Val(condition.threshold) THEN Some(estimate_prob_no_new_high(hour))
            ELSE Some(Max(10000,
                     Micro - estimate_prob_reach_threshold(Val(condition.threshold) - h, hour)))
      [] condition.type = "range" ->
            IF IsNone(condition.low) \/ IsNone(condition.high) THEN None
            ELSE IF h > Val(condition.high) THEN Some(10000)
            ELSE IF h < Val(condition.low)
            THEN Some(Max(10000, Min(990000,
                     ProbTimes(estimate_prob_reach_threshold(Val(condition.low) - h, hour),
                               estimate_prob_no_new_high(hour)))))
            ELSE Some(Max(10000, Min(990000, estimate_prob_no_new_high(hour))))
      [] OTHER -> None

-----------------------------------------------------------------------------
(* Exchange payloads, as far as the code reads them.                        *)

\* {} : the value get_market_data / get_orderbook return after a failure.
EmptyMarketData == [market |-> None]
EmptyOrderbook == [orderbook |-> None]
EmptyWeather == [current_temp |-> None, high_today |-> None]

MarketInfo(t, title, price) == [ticker |-> t, title |-> title, last_price |-> price]
MarketData(t, title, price) == [market |-> Some(MarketInfo(t, title, price))]
Bid(p, c) == [price |-> p, count |-> c]
Orderbook(yes, no) == [orderbook |-> Some([yes |-> yes, no |-> no])]

\* Python truthiness of an optional integer: None and 0 are falsy.
Falsy(x) == IsNone(x) \/ Val(x) = 0

\* _bid_price(bid) for the dict-shaped bids the payloads carry.
BidPrice(bid) == bid.price

\* _ev(prob, price): prob * 100 - price - fee_cents, in millionths of a cent.
Ev(prob, price, fee) ==
    IF IsNone(price) THEN None ELSE Some(prob * 100 - Val(price) * Micro - fee)

\* round(best_ev, 2): to the nearest hundredth of a cent, ties to even.
Round2(ev) ==
    LET unit == 10000
        q == ev \div unit
        r == ev % unit
    IN IF 2 * r > unit \/ (2 * r = unit /\ q % 2 = 1) THEN (q + 1) * unit ELSE q * unit

NoAnalysis(reasoning) ==
    [has_opportunity |-> FALSE, confidence |-> 0, recommendation |-> None,
     reasoning |-> reasoning, order |-> None]

\* The trace entries analyze_opportunity appends before it parses the condition.
ContextTrace(title, yes_bids, no_bids) ==
    <<"Current temp", "Today's high so far">>
    \o (IF ~IsNone(title) /\ Val(title) # <<>> THEN <<"Market title">> ELSE <<>>)
    \o (IF yes_bids # <<>> THEN <<"Best YES bid">> ELSE <<>>)
    \o (IF no_bids # <<>> THEN <<"Best NO bid">> ELSE <<>>)

\* SizeOrder without the clamp of the limit price to [1, 99].
SizeOrderUnclamped(c, current_exposure, best_side, best_ev, best_price, trace) ==
    LET remaining_capacity == Max(0, c.max_position - current_exposure)
        order_size == Min(c.max_order_size, remaining_capacity)
    IN IF order_size <= 0
       THEN NoAnalysis(trace \o <<"Position limit reached; skipping trade">>)
       ELSE [has_opportunity |-> TRUE,
             confidence |-> Round2(best_ev),
             recommendation |-> Some(best_side),
             reasoning |-> trace,
             order |-> Some([side |-> best_side,
                             price |-> best_price,
                             count |-> order_size])]

\* SizeOrder with the size test "order_size < 0" in place of "order_size <= 0".
SizeOrderZeroAllowed(c, current_exposure, best_side, best_ev, best_price, trace) ==
    LET remaining_capacity == Max(0, c.max_position - current_exposure)
        order_size == Min(c.max_order_size, remaining_capacity)
    IN IF order_size < 0
       THEN NoAnalysis(trace \o <<"Position limit reached; skipping trade">>)
       ELSE [has_opportunity |-> TRUE,
             confidence |-> Round2(best_ev),
             recommendation |-> Some(best_side),
             reasoning |-> trace,
             order |-> Some([side |-> best_side,
                             price |-> Max(1, Min(99, best_price)),
                             count |-> order_size])]

\* Sizing and the order of analyze_opportunity (bot.py 490-507), given the
\* chosen side, its EV and price and the trace so far.
SizeOrder(c, current_exposure, best_side, best_ev, best_price, trace) ==
    LET remaining_capacity == Max(0, c.max_position - current_exposure)
        order_size == Min(c.max_order_size, remaining_capacity)
    IN IF order_size <= 0
       THEN NoAnalysis(trace \o <<"Position limit reached; skipping trade">>)
       ELSE [has_opportunity |-> TRUE,
             confidence |-> Round2(best_ev),
             recommendation |-> Some(best_side),
             reasoning |-> trace,
             order |-> Some([side |-> best_side,
                             price |-> Max(1, Min(99, best_price)),
                             count |-> order_size])]

\* PriceAndSelect whose NO side also wins when the two EVs are equal.
PriceAndSelectNoOnTie(c, info, yes_bids, no_bids, prob_yes, current_exposure, trace0) ==
    LET yes_top == IF yes_bids # <<>> THEN BidPrice(yes_bids[1]) ELSE None
        no_top == IF no_bids # <<>> THEN BidPrice(no_bids[1]) ELSE None
        yes_price == IF IsNone(yes_top) THEN info.last_price ELSE yes_top
        no_price == IF IsNone(no_top) /\ ~IsNone(yes_price)
                    THEN Some(100 - Val(yes_price)) ELSE no_top
    IN IF IsNone(yes_price) /\ IsNone(no_price)
       THEN NoAnalysis(trace0 \o <<"No usable price data; skipping EV model">>)
       ELSE
       LET ev_yes == Ev(prob_yes, yes_price, c.fee_cents)
           ev_no == Ev(Micro - prob_yes, no_price, c.fee_cents)
           trace == trace0 \o <<"EV YES", "EV NO">>
           yes_first == ~IsNone(ev_yes)
           no_wins == ~IsNone(ev_no) /\ (~yes_first \/ Val(ev_no) >= Val(ev_yes))
           best_side == IF no_wins THEN "no" ELSE "yes"
           best_ev == IF no_wins THEN ev_no ELSE ev_yes
           best_price == IF no_wins THEN no_price ELSE yes_price
       IN IF IsNone(best_ev) \/ Val(best_ev) < c.min_edge_cents * Micro
          THEN NoAnalysis(trace \o <<"No edge >= min_edge_cents; skipping trade">>)
          ELSE IF IsNone(best_price)
          THEN NoAnalysis(trace \o <<"No limit price available; skipping trade">>)
          ELSE SizeOrder(c, current_exposure, best_side, Val(best_ev),
                         Val(best_price), trace)

\* PriceAndSelect with the edge test "best_ev <= min_edge_cents" in place of
\* "best_ev < min_edge_cents".
PriceAndSelectStrictEdge(c, info, yes_bids, no_bids, prob_yes, current_exposure, trace0) ==
    LET yes_top == IF yes_bids # <<>> THEN BidPrice(yes_bids[1]) ELSE None
        no_top == IF no_bids # <<>> THEN BidPrice(no_bids[1]) ELSE None
        yes_price == IF IsNone(yes_top) THEN info.last_price ELSE yes_top
        no_price == IF IsNone(no_top) /\ ~IsNone(yes_price)
                    THEN Some(100 - Val(yes_price)) ELSE no_top
    IN IF IsNone(yes_price) /\ IsNone(no_price)
       THEN NoAnalysis(trace0 \o <<"No usable price data; skipping EV model">>)
       ELSE
       LET ev_yes == Ev(prob_yes, yes_price, c.fee_cents)
           ev_no == Ev(Micro - prob_yes, no_price, c.fee_cents)
           trace == trace0 \o <<"EV YES", "EV NO">>
           yes_first == ~IsNone(ev_yes)
           no_wins == ~IsNone(ev_no) /\ (~yes_first \/ Val(ev_no) > Val(ev_yes))
           best_side == IF no_wins THEN "no" ELSE "yes"
           best_ev == IF no_wins THEN ev_no ELSE ev_yes
           best_price == IF no_wins THEN no_price ELSE yes_price
       IN IF IsNone(best_ev) \/ Val(best_ev) <= c.min_edge_cents * Micro
          THEN NoAnalysis(trace \o <<"No edge >= min_edge_cents; skipping trade">>)
          ELSE IF IsNone(best_price)
          THEN NoAnalysis(trace \o <<"No limit price available; skipping trade">>)
          ELSE SizeOrder(c, current_exposure, best_side, Val(best_ev),
                         Val(best_price), trace)

\* Side selection and the minimum-edge test (bot.py 438-488).
PriceAndSelect(c, info, yes_bids, no_bids, prob_yes, current_exposure, trace0) ==
    LET yes_top == IF yes_bids # <<>> THEN BidPrice(yes_bids[1]) ELSE None
        no_top == IF no_bids # <<>> THEN BidPrice(no_bids[1]) ELSE None
        yes_price == IF IsNone(yes_top) THEN info.last_price ELSE yes_top
        no_price == IF IsNone(no_top) /\ ~IsNone(yes_price)
                    THEN Some(100 - Val(yes_price)) ELSE no_top
    IN IF IsNone(yes_price) /\ IsNone(no_price)
       THEN NoAnalysis(trace0 \o <<"No usable price data; skipping EV model">>)
       ELSE
       LET ev_yes == Ev(prob_yes, yes_price, c.fee_cents)
           ev_no == Ev(Micro - prob_yes, no_price, c.fee_cents)
           trace == trace0 \o <<"EV YES", "EV NO">>
           yes_first == ~IsNone(ev_yes)
           no_wins == ~IsNone(ev_no) /\ (~yes_first \/ Val(ev_no) > Val(ev_yes))
           best_side == IF no_wins THEN "no" ELSE "yes"
           best_ev == IF no_wins THEN ev_no ELSE ev_yes
           best_price == IF no_wins THEN no_price ELSE yes_price
       IN IF IsNone(best_ev) \/ Val(best_ev) < c.min_edge_cents * Micro
          THEN NoAnalysis(trace \o <<"No edge >= min_edge_cents; skipping trade">>)
          ELSE IF IsNone(best_price)
          THEN NoAnalysis(trace \o <<"No limit price available; skipping trade">>)
          ELSE SizeOrder(c, current_exposure, best_side, Val(best_ev),
                         Val(best_price), trace)

\* analyze_opportunity that returns on an unparsed condition without adding
\* the trace entry for it.
analyzeSilentUnparsed(c, weather_data, market_data, orderbook, current_exposure, hour) ==
    IF Falsy(weather_data.current_temp) \/ Falsy(weather_data.high_today)
    THEN NoAnalysis(<<"Insufficient weather data">>)
    ELSE
    LET book == IF IsNone(orderbook.orderbook)
                THEN [yes |-> <<>>, no |-> <<>>] ELSE Val(orderbook.orderbook)
        info == IF IsNone(market_data.market)
                THEN MarketInfo(None, None, None) ELSE Val(market_data.market)
        trace == ContextTrace(info.title, book.yes, book.no)
        condition == parse_market_condition(IF IsNone(info.title) THEN <<>> ELSE Val(info.title))
    IN IF condition.type \in {"none", "unknown"}
       THEN NoAnalysis(trace)
       ELSE
       LET prob_yes == estimate_prob_yes(condition, weather_data.high_today, hour)
       IN IF IsNone(prob_yes)
          THEN NoAnalysis(trace \o <<"Probability model could not estimate outcome">>)
          ELSE PriceAndSelect(c, info, book.yes, book.no, Val(prob_yes), current_exposure,
                              trace \o <<"Heuristic P(YES)">>)

\* analyze_opportunity(weather_data, market_data, orderbook, current_exposure)
\* of a bot configured with c, called at hour-of-day hour.
analyze_opportunity(c, weather_data, market_data, orderbook, current_exposure, hour) ==
    IF Falsy(weather_data.current_temp) \/ Falsy(weather_data.high_today)
    THEN NoAnalysis(<<"Insufficient weather data">>)
    ELSE
    LET book == IF IsNone(orderbook.orderbook)
                THEN [yes |-> <<>>, no |-> <<>>] ELSE Val(orderbook.orderbook)
        info == IF IsNone(market_data.market)
                THEN MarketInfo(None, None, None) ELSE Val(market_data.market)
        trace == ContextTrace(info.title, book.yes, book.no)
        condition == parse_market_condition(IF IsNone(info.title) THEN <<>> ELSE Val(info.title))
    IN IF condition.type \in {"none", "unknown"}
       THEN NoAnalysis(trace \o <<"Market condition not parsed; skipping EV model">>)
       ELSE
       LET prob_yes == estimate_prob_yes(condition, weather_data.high_today, hour)
       IN IF IsNone(prob_yes)
          THEN NoAnalysis(trace \o <<"Probability model could not estimate outcome">>)
          ELSE PriceAndSelect(c, info, book.yes, book.no, Val(prob_yes), current_exposure,
                              trace \o <<"Heuristic P(YES)">>)

-----------------------------------------------------------------------------
(* Ticker resolver.                                                         *)

\* A ticker is a series identifier and a date suffix, "{series}-{date}".
Ticker(series, date) == [series |-> series, date |-> date]

\* A calendar date, as datetime.now() gives it.
Date(d, m, y) == [day |-> d, month |-> m, year |-> y]

\* strftime("%d"), ("%y"): two digits, zero padded.
Pad2(n) == IF n < 10 THEN "0" \o ToString(n) ELSE ToString(n)

\* strftime("%b") in the C locale.
MonthAbbr ==
    <<"Jan", "Feb", "Mar", "Apr", "May", "Jun", "Jul", "Aug", "Sep", "Oct", "Nov", "Dec">>

\* str.upper() on a month abbreviation.
Upper(s) ==
    CASE s = "Jan" -> "JAN" [] s = "Feb" -> "FEB" [] s = "Mar" -> "MAR"
      [] s = "Apr" -> "APR" [] s = "May" -> "MAY" [] s = "Jun" -> "JUN"
      [] s = "Jul" -> "JUL" [] s = "Aug" -> "AUG" [] s = "Sep" -> "SEP"
      [] s = "Oct" -> "OCT" [] s = "Nov" -> "NOV" [] s = "Dec" -> "DEC"
      [] OTHER -> s

\* today.strftime("%d%b%y").upper()
DateStr(today) ==
    Pad2(today.day) \o Upper(MonthAbbr[today.month]) \o Pad2(today.year % 100)

\* get_todays_market_ticker(): f"KXHIGHMIA-{date_str}"; the series
\* identifier is the literal of the source, not self.series_ticker.
get_todays_market_ticker(today) == Ticker("KXHIGHMIA", DateStr(today))

\* The empty string, where a ticker is expected.
EmptyTicker == Ticker("", "")

\* Python truthiness of an optional ticker and of an optional string.
Truthy(x) == ~IsNone(x) /\ Val(x) # EmptyTicker
TruthyStr(x) == ~IsNone(x) /\ Val(x) # ""

\* _parse_ts(value): value is [kind, v]; an int/float or a digit string gives
\* int(value), an ISO-8601 string its epoch seconds, anything else None.
ParseTs(value) ==
    IF value.kind \in {"int", "digits", "iso"} THEN Some(value.v) ELSE None

\* int(value) of a float that is NaN or infinite raises (ValueError,
\* OverflowError) outside the try blocks of _parse_ts.
ParseTsRaises(value) == value.kind = "nan"

\* An element of a markets list.  shape "dict": a dict with an optional
\* ticker and the values of the close-time keys it has, in the order
\* _close_ts looks for them (close_ts, close_time, close_timestamp,
\* close_ts_s).  shape "str": a bare string, kept in the ticker field.
\* shape "other": anything else (None, a number).
Entry(t, close) == [shape |-> "dict", ticker |-> t, close |-> close]
StrEntry(t) == [shape |-> "str", ticker |-> Some(t), close |-> <<>>]
OtherEntry == [shape |-> "other", ticker |-> None, close |-> <<>>]
NoClose == <<>>
CloseAt(kind, v) == <<[kind |-> kind, v |-> v]>>

\* _close_ts(market): _parse_ts of the first close-time key the dict has.
close_ts(market) == IF market.close = <<>> THEN None ELSE ParseTs(Head(market.close))
CloseTsRaises(market) == market.close # <<>> /\ ParseTsRaises(Head(market.close))

\* Index of the first entry with the smallest close time among the dicts whose
\* close time parses and is >= now_ts; 0 if there is none.  (A stable sort by
\* close time followed by taking element 0.)
EarliestUpcoming(markets, now_ts) ==
    LET ok(i) == /\ markets[i].shape = "dict"
                 /\ ~IsNone(close_ts(markets[i]))
                 /\ Val(close_ts(markets[i])) >= now_ts
        cand == {i \in 1..Len(markets) : ok(i)}
    IN IF cand = {} THEN 0
       ELSE CHOOSE i \in cand :
              \A j \in cand : \/ Val(close_ts(markets[i])) < Val(close_ts(markets[j]))
                              \/ (Val(close_ts(markets[i])) = Val(close_ts(markets[j]))
                                  /\ i <= j)

\* A collaborator response: the call raised, or returned a payload.  The
\* payload of get_series / get_markets is the list found under its "markets"
\* key (or the fallback keys); a payload without those keys is the empty list.
Raised == [ok |-> FALSE, body |-> None]
Returned(body) == [ok |-> TRUE, body |-> Some(body)]

\* The series loop: some element is a dict whose ticker, or a string that,
\* equals the canonical ticker.
InSeries(markets, ticker) ==
    \E i \in 1..Len(markets) :
        markets[i].shape \in {"dict", "str"} /\ markets[i].ticker = Some(ticker)

\* resolve_market_ticker that consults the series before the override.
resolveSeriesFirst(c, seriesResp, marketsResp, now_ts, today) ==
    IF seriesResp.ok /\ InSeries(Val(seriesResp.body), get_todays_market_ticker(today))
    THEN [ticker |-> get_todays_market_ticker(today), calls |-> <<"get_series">>,
          raised |-> FALSE]
    ELSE IF Truthy(c.market_ticker_override)
    THEN [ticker |-> Val(c.market_ticker_override), calls |-> <<"get_series">>,
          raised |-> FALSE]
    ELSE [ticker |-> get_todays_market_ticker(today), calls |-> <<"get_series">>,
          raised |-> FALSE]

\* resolve_market_ticker that prefers the latest upcoming close time.
resolveLatestClose(c, seriesResp, marketsResp, now_ts, today) ==
    LET ticker == get_todays_market_ticker(today)
        made == <<"get_series", "get_markets:series">>
    IN IF Truthy(c.market_ticker_override)
       THEN [ticker |-> Val(c.market_ticker_override), calls |-> <<>>, raised |-> FALSE]
       ELSE IF ~TruthyStr(c.series_ticker)
       THEN [ticker |-> ticker, calls |-> <<>>, raised |-> FALSE]
       ELSE IF seriesResp.ok /\ InSeries(Val(seriesResp.body), ticker)
       THEN [ticker |-> ticker, calls |-> <<"get_series">>, raised |-> FALSE]
       ELSE IF ~marketsResp.ok \/ Val(marketsResp.body) = <<>>
       THEN [ticker |-> ticker, calls |-> made, raised |-> FALSE]
       ELSE LET markets == Val(marketsResp.body)
                cand == {i \in 1..Len(markets) :
                           /\ markets[i].shape = "dict"
                           /\ ~IsNone(close_ts(markets[i]))
                           /\ Val(close_ts(markets[i])) >= now_ts}
                k == IF cand = {} THEN 1
                     ELSE CHOOSE i \in cand :
                            \A j \in cand :
                                Val(close_ts(markets[i])) >= Val(close_ts(markets[j]))
            IN [ticker |-> IF Truthy(markets[k].ticker) THEN Val(markets[k].ticker)
                           ELSE ticker,
                calls |-> made, raised |-> FALSE]

\* resolve_market_ticker without the try/except around the listing lookup.
resolveUnguardedListing(c, seriesResp, marketsResp, now_ts, today) ==
    LET ticker == get_todays_market_ticker(today)
        made == <<"get_series", "get_markets:series">>
    IN IF Truthy(c.market_ticker_override)
       THEN [ticker |-> Val(c.market_ticker_override), calls |-> <<>>, raised |-> FALSE]
       ELSE IF ~TruthyStr(c.series_ticker)
       THEN [ticker |-> ticker, calls |-> <<>>, raised |-> FALSE]
       ELSE IF seriesResp.ok /\ InSeries(Val(seriesResp.body), ticker)
       THEN [ticker |-> ticker, calls |-> <<"get_series">>, raised |-> FALSE]
       ELSE IF ~marketsResp.ok
       THEN [ticker |-> EmptyTicker, calls |-> made, raised |-> TRUE]
       ELSE IF Val(marketsResp.body) = <<>>
       THEN [ticker |-> ticker, calls |-> made, raised |-> FALSE]
       ELSE LET markets == Val(marketsResp.body)
                k == EarliestUpcoming(markets, now_ts)
                chosen == IF k = 0 THEN markets[1] ELSE markets[k]
            IN IF (\E i \in 1..Len(markets) :
                      markets[i].shape = "dict" /\ CloseTsRaises(markets[i]))
                  \/ chosen.shape # "dict"
               THEN [ticker |-> EmptyTicker, calls |-> made, raised |-> TRUE]
               ELSE [ticker |-> IF Truthy(chosen.ticker) THEN Val(chosen.ticker)
                                ELSE ticker,
                     calls |-> made, raised |-> FALSE]

\* resolve_market_ticker that returns None when nothing is listed.
resolveNoFallback(c, seriesResp, marketsResp, now_ts, today) ==
    LET ticker == get_todays_market_ticker(today)
        made == <<"get_series", "get_markets:series">>
    IN IF Truthy(c.market_ticker_override)
       THEN [ticker |-> Val(c.market_ticker_override), calls |-> <<>>, raised |-> FALSE]
       ELSE IF ~TruthyStr(c.series_ticker)
       THEN [ticker |-> ticker, calls |-> <<>>, raised |-> FALSE]
       ELSE IF seriesResp.ok /\ InSeries(Val(seriesResp.body), ticker)
       THEN [ticker |-> ticker, calls |-> <<"get_series">>, raised |-> FALSE]
       ELSE [ticker |-> EmptyTicker, calls |-> made, raised |-> FALSE]

\* resolve_market_ticker(): the ticker it returns, the exchange calls it
\* made and whether an exception left it, given what get_series and
\* get_markets answer when asked, the clock and the date.  Both lookups sit in
\* try/except Exception blocks whose handlers go on with the canonical ticker,
\* so an exception inside the listing branch (a NaN close time, markets[0]
\* that has no .get) ends in "return ticker".
resolve_market_ticker(c, seriesResp, marketsResp, now_ts, today) ==
    IF Truthy(c.market_ticker_override)
    THEN [ticker |-> Val(c.market_ticker_override), calls |-> <<>>, raised |-> FALSE]
    ELSE LET ticker == get_todays_market_ticker(today) IN
    IF ~TruthyStr(c.series_ticker)
    THEN [ticker |-> ticker, calls |-> <<>>, raised |-> FALSE]
    ELSE IF seriesResp.ok /\ InSeries(Val(seriesResp.body), ticker)
    THEN [ticker |-> ticker, calls |-> <<"get_series">>, raised |-> FALSE]
    ELSE LET made == <<"get_series", "get_markets:series">> IN
    IF ~marketsResp.ok \/ Val(marketsResp.body) = <<>>
    THEN [ticker |-> ticker, calls |-> made, raised |-> FALSE]
    ELSE LET markets == Val(marketsResp.body)
             k == EarliestUpcoming(markets, now_ts)
             chosen == IF k = 0 THEN markets[1] ELSE markets[k]
         IN IF (\E i \in 1..Len(markets) :
                   markets[i].shape = "dict" /\ CloseTsRaises(markets[i]))
               \/ chosen.shape # "dict"
            THEN [ticker |-> ticker, calls |-> made, raised |-> FALSE]
            ELSE [ticker |-> IF Truthy(chosen.ticker) THEN Val(chosen.ticker) ELSE ticker,
                  calls |-> made, raised |-> FALSE]

\* One entry of the positions list: a dict with a ticker and any of the
\* count fields the code looks at, each None (absent, or JSON null) or a
\* number; shape "other" stands for an entry that is not a dict.
PositionKeys == <<"position", "count", "size", "quantity", "net_position">>
NoFields ==
    [position |-> None, count |-> None, size |-> None, quantity |-> None,
     net_position |-> None, yes |-> None, yes_position |-> None,
     no |-> None, no_position |-> None]
PositionEntry(t, fields) ==
    [shape |-> "dict", ticker |-> Some(t), fields |-> fields]
OtherPosition == [shape |-> "other", ticker |-> None, fields |-> NoFields]
Position(t, n) == PositionEntry(t, [NoFields EXCEPT !.position = Some(n)])

\* pos.get("yes") or pos.get("yes_position"), and the same for "no": the
\* first when it is truthy, else the second.
YesVal(f) == IF Falsy(f.yes) THEN f.yes_position ELSE f.yes
NoVal(f) == IF Falsy(f.no) THEN f.no_position ELSE f.no

\* The first of PositionKeys under which the entry holds a number; 0 if none.
FirstKey(f) ==
    LET held == {k \in 1..Len(PositionKeys) : ~IsNone(f[PositionKeys[k]])}
    IN IF held = {} THEN 0 ELSE CHOOSE k \in held : \A j \in held : k <= j

\* EntryExposure without abs().
entryExposureSigned(f) ==
    IF FirstKey(f) # 0 THEN Some(Val(f[PositionKeys[FirstKey(f)]]))
    ELSE IF ~IsNone(YesVal(f)) \/ ~IsNone(NoVal(f))
    THEN Some((IF Falsy(YesVal(f)) THEN 0 ELSE Val(YesVal(f)))
              + (IF Falsy(NoVal(f)) THEN 0 ELSE Val(NoVal(f))))
    ELSE None

\* What the body of the loop returns for a matching entry, None when it
\* goes on to the next entry (bot.py 249-257).
EntryExposure(f) ==
    IF FirstKey(f) # 0 THEN Some(Abs(Val(f[PositionKeys[FirstKey(f)]])))
    ELSE IF ~IsNone(YesVal(f)) \/ ~IsNone(NoVal(f))
    THEN Some((IF Falsy(YesVal(f)) THEN 0 ELSE Abs(Val(YesVal(f))))
              + (IF Falsy(NoVal(f)) THEN 0 ELSE Abs(Val(NoVal(f)))))
    ELSE None

\* get_position_exposure(ticker), given what get_positions() answers: 0 when
\* the call raises, else the exposure of the first dict entry for the ticker
\* that yields one, else 0.
RECURSIVE ExposureFrom(_, _, _)
ExposureFrom(ps, i, ticker) ==
    IF i > Len(ps) THEN 0
    ELSE IF ps[i].shape # "dict" \/ ps[i].ticker # Some(ticker)
    THEN ExposureFrom(ps, i + 1, ticker)
    ELSE IF IsNone(EntryExposure(ps[i].fields)) THEN ExposureFrom(ps, i + 1, ticker)
    ELSE Val(EntryExposure(ps[i].fields))

get_position_exposure(ticker, positionsResp) ==
    IF ~positionsResp.ok THEN 0
    ELSE ExposureFrom(Val(positionsResp.body), 1, ticker)

-----------------------------------------------------------------------------
(* Bounds of the model and the values the collaborators may answer.         *)

\* time.time() when the process starts, in ticks.  _last_*_ts start at 0.0 and
\* the Unix clock is far beyond any interval, so StartTime >= MaxInterval.
StartTime == 4
\* Ticks the run is followed for.
MaxTicks == 2
\* Longest time one cycle (its calls and its sleep) takes.
MaxDt == 2
\* Largest refresh interval a cache is configured with.
MaxInterval == 2
\* Buffer flushes json.dump needs to write one snapshot document.
SnapChunks == 2

EndTime == StartTime + MaxTicks

\* datetime.now() on the day of the run: the date, and the hour at clock value t.
Today == Date(3, 11, 2026)

HourAt(t) == (8 + t) % 24

Override == Ticker("KXHIGHMIA", "OVERRIDE")
ListedTicker == Ticker("KXHIGHMIA", "04NOV26")
EventA == Ticker("KXHIGHMIA", "03NOV26-B75")
EventB == Ticker("KXHIGHMIA", "03NOV26-B77")

\* "Will the high be at least 75°F?" as the exchange writes it, and the same
\* title after a UTF-8/Latin-1 round trip ("75Â°F").
TitleDegree == <<Word("will the high be"), Word("at least"), Temp(75, "°F")>>
TitleMojibake == <<Word("will the high be"), Word("at least"), Temp(75, "Â°F")>>

ActiveStatus == [exchange_active |-> Some(TRUE), trading_active |-> Some(TRUE)]
StatusBodies ==
    {[exchange_active |-> a, trading_active |-> t] :
        a \in {Some(TRUE), Some(FALSE)}, t \in {Some(TRUE), Some(FALSE), None}}
GoodWeather == [current_temp |-> Some(74), high_today |-> Some(76)]
WeatherReadings == {EmptyWeather, GoodWeather}
MarketBodies(t) == {MarketData(Some(t), Some(title), Some(40)) :
                       title \in {TitleDegree, TitleMojibake}}
GoodOrderbook == Orderbook(<<Bid(Some(40), Some(10))>>, <<Bid(Some(55), Some(5))>>)
TodaySeries == <<Entry(Some(get_todays_market_ticker(Today)), NoClose)>>
SeriesBodies == {<<>>, TodaySeries}
OpenListing == <<Entry(Some(ListedTicker), CloseAt("iso", EndTime + 1))>>
ListingBodies == {<<>>, OpenListing}
PositionBodies(t) == {<<>>, <<Position(t, 20)>>}
EventListing == <<[ticker |-> Some(EventB)]>>
EventListings == {EventListing, <<[ticker |-> Some(EventA)], [ticker |-> Some(EventB)]>>}
GoodHighs == <<Some(78), Some(80)>>
MeteoHighs == {<<None, None>>, GoodHighs}

\* Call sites on the exchange client.
ExchangeSites ==
    {"get_exchange_status", "get_series", "get_markets:series", "get_markets:event",
     "get_market_orderbook:event", "get_market", "get_market_orderbook",
     "get_balance", "get_positions", "get_orders", "get_positions:exposure",
     "place_order"}

\* What the collaborator behind call site `site` may answer in this run: it
\* may raise if the run's environment lists the site as flaky, and it returns
\* any of `bodies` if the environment lists the site as varying, else `usual`.
Answers(site, bodies, usual) ==
    (IF site \in env.flaky THEN {Raised} ELSE {})
    \cup {Returned(b) : b \in (IF site \in env.rich THEN bodies ELSE {usual})}

-----------------------------------------------------------------------------
(* Refresh caches.                                                          *)

Entry0(v) == [value |-> v, ts |-> 0]

\* CacheHit with "now - ts <= interval" in place of "now - ts < interval".
CacheHitInclusive(truthy, ts, interval, t) == truthy /\ t - ts <= interval

\* The test that serves a call from the cache: the cached value is truthy and
\* younger than the interval (bot.py 333, 341, 351).
CacheHit(truthy, ts, interval, t) == truthy /\ t - ts < interval

\* Store that keeps the last good value when the fetch comes back empty.
StoreKeepGood(old, fetched) == IF fetched = <<>> THEN old ELSE fetched

\* What a refresh stores: the fetch result, whatever it is (bot.py 335, 343, 356).
Store(old, fetched) == fetched

\* get_event_markets(), given what get_markets(event_ticker=...) answers.
get_event_markets(c, resp) ==
    IF ~TruthyStr(c.event_ticker) THEN <<>>
    ELSE IF ~resp.ok THEN <<>>
    ELSE Val(resp.body)

\* _normalize_bids of the fixed book the exchange serves for an event market.
EventBook(t) == [ticker |-> t, yes |-> <<Bid(Some(40), Some(10))>>, no |-> <<>>]

\* get_event_orderbooks(event_markets): the markets within
\* event_orderbook_limit that have a ticker and whose order book fetch, asked
\* in list order, does not raise (okSet: indexes whose fetch succeeds).
RECURSIVE EventBooksFrom(_, _, _)
EventBooksFrom(markets, i, okSet) ==
    IF i > Len(markets) THEN <<>>
    ELSE (IF Truthy(markets[i].ticker) /\ i \in okSet
          THEN <<EventBook(Val(markets[i].ticker))>> ELSE <<>>)
         \o EventBooksFrom(markets, i + 1, okSet)

get_event_orderbooks(c, event_markets, okSet) ==
    EventBooksFrom(SubSeq(event_markets, 1, Min(Len(event_markets), c.event_orderbook_limit)),
                   1, okSet)

\* The dict get_open_meteo_cached builds from get_daily_highs.
MeteoDict(highs) ==
    [gfs_high |-> highs[1], ecmwf_high |-> highs[2],
     spread |-> IF ~IsNone(highs[1]) /\ ~IsNone(highs[2])
                THEN Some(Abs(Val(highs[1]) - Val(highs[2]))) ELSE None]

-----------------------------------------------------------------------------
(* run_heartbeat: one action per call the loop body makes.                  *)

\* The record of the step taken last: the call made, whether it succeeded,
\* for a cache getter whether it ran its fetch (1) or not (0) and the fetch
\* log entry it found, for the snapshot step the exception it ended with, and
\* for the status query the body it returned.
Step(name, ok) ==
    [name |-> name, ok |-> ok, fetched |-> 0, prev |-> None, err |-> "", got |-> None]
CacheStep(name, ok, fetched, prev) ==
    [name |-> name, ok |-> ok, fetched |-> fetched, prev |-> prev, err |-> "", got |-> None]
SnapStep(ok, err) ==
    [name |-> "write_snapshot", ok |-> ok, fetched |-> 0, prev |-> None, err |-> err,
     got |-> None]
StatusStep(resp) ==
    [name |-> "get_exchange_status", ok |-> resp.ok, fetched |-> 0, prev |-> None,
     err |-> "", got |-> resp.body]

\* Guarded without the try/except around get_balance.
GuardedButBalance ==
    {"get_exchange_status", "get_series", "get_markets:series", "get_markets:event",
     "get_market_orderbook:event", "get_market", "get_market_orderbook",
     "get_positions", "get_orders", "get_positions:exposure",
     "place_order", "write_snapshot"}

\* Call sites of run_heartbeat and its helpers that sit inside a try/except
\* Exception block: a raise there is caught and replaced by a default.
Guarded ==
    {"get_exchange_status", "get_series", "get_markets:series", "get_markets:event",
     "get_market_orderbook:event", "get_market", "get_market_orderbook",
     "get_balance", "get_positions", "get_orders", "get_positions:exposure",
     "place_order", "write_snapshot"}

\* AfterRaise that starts the next iteration at once, without the rest of
\* the cycle and without sleeping.
AfterRaiseRestart(site, next) == "status"

\* Where the loop goes when the call at `site` raises: on to `next` when the
\* site is guarded, out of the loop (the exception reaches the top level and
\* the process ends) when it is not.
AfterRaise(site, next) == IF site \in Guarded THEN next ELSE "aborted"

NoLocals ==
    [weather_data |-> EmptyWeather, open_meteo |-> None, event_markets |-> <<>>,
     event_orderbooks |-> <<>>, ticker |-> None, market_data |-> EmptyMarketData,
     orderbook |-> EmptyOrderbook, portfolio |-> None, positions |-> None,
     orders |-> None, current_exposure |-> 0, analysis |-> None]

\* Inactive that looks at exchange_active only.
InactiveExchangeOnly(body) == body.exchange_active = Some(FALSE)

\* exchange.get("exchange_active") is False or exchange.get("trading_active") is False
Inactive(body) == body.exchange_active = Some(FALSE) \/ body.trading_active = Some(FALSE)


\* exchange = self.kalshi.get_exchange_status() and the gate on it.
ExchangeStatus ==
    /\ pc = "status"
    /\ \E resp \in Answers("get_exchange_status", StatusBodies, ActiveStatus) :
         /\ last' = StatusStep(resp)
         /\ pc' = IF ~resp.ok THEN AfterRaise("get_exchange_status", "weather")
                  ELSE IF Inactive(Val(resp.body)) THEN "sleep" ELSE "weather"
    /\ calls' = Append(calls, "get_exchange_status")
    /\ UNCHANGED <<exchange, env, environ, SNAPSHOT_CACHE, tickerArgs>>
    /\ UNCHANGED <<cfg, engIn, engOut, now, cache, loc, placed, fs, http, fetchLog>>

\* weather_data = self.weather.get_miami_data(); it catches its own errors
\* and then returns a reading without values.
GetWeather ==
    /\ pc = "weather"
    /\ \E resp \in Answers("get_miami_data", WeatherReadings, GoodWeather) :
         loc' = [loc EXCEPT !.weather_data = Val(resp.body)]
    /\ last' = Step("get_miami_data", TRUE)
    /\ calls' = Append(calls, "get_miami_data")
    /\ pc' = "meteo"
    /\ UNCHANGED <<exchange, env, environ, SNAPSHOT_CACHE, tickerArgs>>
    /\ UNCHANGED <<cfg, engIn, engOut, now, cache, placed, fs, http, fetchLog>>

\* get_open_meteo_cached()
GetOpenMeteoCached ==
    /\ pc = "meteo"
    /\ pc' = "evmarkets"
    /\ IF ~cfg.open_meteo_enabled
       THEN /\ loc' = [loc EXCEPT !.open_meteo = None]
            /\ last' = CacheStep("get_open_meteo_cached", TRUE, 0, fetchLog.om)
            /\ UNCHANGED <<cache, calls, fetchLog>>
       ELSE IF CacheHit(~IsNone(cache.om.value), cache.om.ts, cfg.open_meteo_interval, now)
       THEN /\ loc' = [loc EXCEPT !.open_meteo = cache.om.value]
            /\ last' = CacheStep("get_open_meteo_cached", TRUE, 0, fetchLog.om)
            /\ UNCHANGED <<cache, calls, fetchLog>>
       ELSE \E resp \in Answers("get_daily_highs", MeteoHighs, GoodHighs) :
            LET highs == Val(resp.body)
                new == Store(cache.om.value, Some(MeteoDict(highs)))
                good == ~IsNone(highs[1]) \/ ~IsNone(highs[2])
            IN /\ cache' = [cache EXCEPT !.om = [value |-> new, ts |-> now]]
               /\ loc' = [loc EXCEPT !.open_meteo = new]
               /\ last' = CacheStep("get_open_meteo_cached", good, 1, fetchLog.om)
               /\ fetchLog' = [fetchLog EXCEPT !.om = Some([at |-> now, empty |-> FALSE])]
               /\ calls' = Append(calls, "get_daily_highs")
    /\ UNCHANGED <<exchange, env, environ, SNAPSHOT_CACHE, tickerArgs>>
    /\ UNCHANGED <<cfg, engIn, engOut, now, placed, fs, http>>

\* get_event_markets_cached()
GetEventMarketsCached ==
    /\ pc = "evmarkets"
    /\ IF CacheHit(cache.em.value # <<>>, cache.em.ts, cfg.event_markets_interval, now)
       THEN /\ loc' = [loc EXCEPT !.event_markets = cache.em.value]
            /\ last' = CacheStep("get_event_markets_cached", TRUE, 0, fetchLog.em)
            /\ pc' = "evbooks"
            /\ UNCHANGED <<cache, calls, fetchLog>>
       ELSE \E resp \in Answers("get_markets:event", EventListings, EventListing) :
            LET got == get_event_markets(cfg, resp)
                new == Store(cache.em.value, got)
            IN /\ cache' = [cache EXCEPT !.em = [value |-> new, ts |-> now]]
               /\ loc' = [loc EXCEPT !.event_markets = new]
               /\ last' = CacheStep("get_event_markets_cached", got # <<>>, 1, fetchLog.em)
               /\ fetchLog' = [fetchLog EXCEPT !.em = Some([at |-> now, empty |-> got = <<>>])]
               /\ calls' = IF TruthyStr(cfg.event_ticker)
                           THEN Append(calls, "get_markets:event") ELSE calls
               /\ pc' = IF resp.ok \/ ~TruthyStr(cfg.event_ticker) THEN "evbooks"
                        ELSE AfterRaise("get_markets:event", "evbooks")
    /\ UNCHANGED <<exchange, env, environ, SNAPSHOT_CACHE, tickerArgs>>
    /\ UNCHANGED <<cfg, engIn, engOut, now, placed, fs, http>>

\* The sets of event markets whose order book fetch may succeed in this run.
BookOutcomes(n) ==
    IF "get_market_orderbook:event" \in env.flaky THEN SUBSET (1..n) ELSE {1..n}

\* get_event_orderbooks_cached(event_markets)
GetEventOrderbooksCached ==
    /\ pc = "evbooks"
    /\ IF CacheHit(cache.eob.value # <<>>, cache.eob.ts, cfg.event_orderbook_interval, now)
       THEN /\ loc' = [loc EXCEPT !.event_orderbooks = cache.eob.value]
            /\ last' = CacheStep("get_event_orderbooks_cached", TRUE, 0, fetchLog.eob)
            /\ pc' = "resolve"
            /\ UNCHANGED <<cache, calls, fetchLog>>
       ELSE \E okSet \in BookOutcomes(Len(loc.event_markets)) :
            LET got == get_event_orderbooks(cfg, loc.event_markets, okSet)
                new == Store(cache.eob.value, got)
                allOk == okSet = 1..Len(loc.event_markets)
            IN /\ cache' = [cache EXCEPT !.eob = [value |-> new, ts |-> now]]
               /\ loc' = [loc EXCEPT !.event_orderbooks = new]
               /\ last' = CacheStep("get_event_orderbooks_cached", got # <<>>, 1, fetchLog.eob)
               /\ fetchLog' = [fetchLog EXCEPT !.eob = Some([at |-> now, empty |-> got = <<>>])]
               /\ calls' = IF loc.event_markets # <<>>
                           THEN Append(calls, "get_market_orderbook:event") ELSE calls
               /\ pc' = IF allOk THEN "resolve"
                        ELSE AfterRaise("get_market_orderbook:event", "resolve")
    /\ UNCHANGED <<exchange, env, environ, SNAPSHOT_CACHE, tickerArgs>>
    /\ UNCHANGED <<cfg, engIn, engOut, now, placed, fs, http>>

\* One entry of tickerArgs: a resolution and the ticker it returned, or a
\* call and the ticker it was given.
TickerUse(call, ticker) == [call |-> call, ticker |-> ticker]

\* What resolve_market_ticker() may return when called now.
Resolutions ==
    {resolve_market_ticker(cfg, sr, mr, now, Today) :
        sr \in Answers("get_series", SeriesBodies, TodaySeries),
        mr \in Answers("get_markets:series", ListingBodies, OpenListing)}

\* TickerOrResolve that resolves again whatever it was given.
TickerAlwaysResolve(ticker, r) ==
    [ticker |-> r.ticker, calls |-> r.calls, resolved |-> TRUE]

\* ticker = ticker or self.resolve_market_ticker() of get_market_data and
\* get_orderbook (bot.py 265, 279); r is what a resolution made there returns.
TickerOrResolve(ticker, r) ==
    IF Truthy(ticker)
    THEN [ticker |-> Val(ticker), calls |-> <<>>, resolved |-> FALSE]
    ELSE [ticker |-> r.ticker, calls |-> r.calls, resolved |-> TRUE]

\* The entries a fetch adds to tickerArgs: the resolution it made, if any, and
\* the call it made, if any.
FetchUses(t, call) ==
    (IF t.resolved THEN <<TickerUse("resolve_market_ticker", t.ticker)>> ELSE <<>>)
    \o (IF t.ticker # EmptyTicker THEN <<TickerUse(call, t.ticker)>> ELSE <<>>)

\* ticker = self.resolve_market_ticker()
ResolveTicker ==
    /\ pc = "resolve"
    /\ \E sr \in Answers("get_series", SeriesBodies, TodaySeries),
          mr \in Answers("get_markets:series", ListingBodies, OpenListing) :
         LET r == resolve_market_ticker(cfg, sr, mr, now, Today)
             seriesOk == sr.ok \/ "get_series" \notin {r.calls[i] : i \in 1..Len(r.calls)}
             listOk == mr.ok \/ "get_markets:series" \notin {r.calls[i] : i \in 1..Len(r.calls)}
         IN /\ loc' = [loc EXCEPT !.ticker = Some(r.ticker)]
            /\ calls' = calls \o r.calls
            /\ tickerArgs' = Append(tickerArgs, TickerUse("resolve_market_ticker", r.ticker))
            /\ last' = Step("resolve_market_ticker", seriesOk /\ listOk /\ ~r.raised)
            /\ pc' = IF r.raised THEN "aborted"
                     ELSE IF ~seriesOk THEN AfterRaise("get_series", "market")
                     ELSE IF ~listOk THEN AfterRaise("get_markets:series", "market")
                     ELSE "market"
    /\ UNCHANGED <<exchange, env, environ, SNAPSHOT_CACHE>>
    /\ UNCHANGED <<cfg, engIn, engOut, now, cache, placed, fs, http, fetchLog>>

\* market_data = self.get_market_data(ticker=ticker)
GetMarketData ==
    /\ pc = "market"
    /\ \E r \in Resolutions :
         LET t == TickerOrResolve(loc.ticker, r) IN
         /\ tickerArgs' = tickerArgs \o FetchUses(t, "get_market")
         /\ IF t.ticker = EmptyTicker
            THEN /\ last' = Step("get_market", TRUE)
                 /\ loc' = [loc EXCEPT !.market_data = EmptyMarketData]
                 /\ pc' = "orderbook"
                 /\ calls' = calls \o t.calls
            ELSE \E resp \in Answers("get_market", MarketBodies(t.ticker),
                                     MarketData(Some(t.ticker), Some(TitleMojibake), Some(40))) :
                 /\ last' = Step("get_market", resp.ok)
                 /\ calls' = calls \o t.calls \o <<"get_market">>
                 /\ IF resp.ok
                    THEN /\ loc' = [loc EXCEPT !.market_data = Val(resp.body)]
                         /\ pc' = "orderbook"
                    ELSE /\ loc' = [loc EXCEPT !.market_data = EmptyMarketData]
                         /\ pc' = AfterRaise("get_market", "orderbook")
    /\ UNCHANGED <<exchange, env, environ, SNAPSHOT_CACHE>>
    /\ UNCHANGED <<cfg, engIn, engOut, now, cache, placed, fs, http, fetchLog>>

\* orderbook = self.get_orderbook(ticker=ticker, depth=self.orderbook_depth)
GetOrderbook ==
    /\ pc = "orderbook"
    /\ \E r \in Resolutions :
         LET t == TickerOrResolve(loc.ticker, r) IN
         /\ tickerArgs' = tickerArgs \o FetchUses(t, "get_market_orderbook")
         /\ IF t.ticker = EmptyTicker
            THEN /\ last' = Step("get_market_orderbook", TRUE)
                 /\ loc' = [loc EXCEPT !.orderbook = EmptyOrderbook]
                 /\ pc' = "balance"
                 /\ calls' = calls \o t.calls
            ELSE \E resp \in Answers("get_market_orderbook", {GoodOrderbook}, GoodOrderbook) :
                 /\ last' = Step("get_market_orderbook", resp.ok)
                 /\ calls' = calls \o t.calls \o <<"get_market_orderbook">>
                 /\ IF resp.ok
                    THEN /\ loc' = [loc EXCEPT !.orderbook = Val(resp.body)]
                         /\ pc' = "balance"
                    ELSE /\ loc' = [loc EXCEPT !.orderbook = EmptyOrderbook]
                         /\ pc' = AfterRaise("get_market_orderbook", "balance")
    /\ UNCHANGED <<exchange, env, environ, SNAPSHOT_CACHE>>
    /\ UNCHANGED <<cfg, engIn, engOut, now, cache, placed, fs, http, fetchLog>>

\* portfolio = {}; try: portfolio = self.kalshi.get_balance()
GetBalance ==
    /\ pc = "balance"
    /\ \E resp \in Answers("get_balance", {"balance"}, "balance") :
         /\ last' = Step("get_balance", resp.ok)
         /\ loc' = [loc EXCEPT !.portfolio = resp.body]
         /\ pc' = IF resp.ok THEN "positions" ELSE AfterRaise("get_balance", "positions")
    /\ calls' = Append(calls, "get_balance")
    /\ UNCHANGED <<exchange, env, environ, SNAPSHOT_CACHE, tickerArgs>>
    /\ UNCHANGED <<cfg, engIn, engOut, now, cache, placed, fs, http, fetchLog>>

\* positions = {}; try: positions = self.kalshi.get_positions()
GetPositions ==
    /\ pc = "positions"
    /\ \E resp \in Answers("get_positions", {"positions"}, "positions") :
         /\ last' = Step("get_positions", resp.ok)
         /\ loc' = [loc EXCEPT !.positions = resp.body]
         /\ pc' = IF resp.ok THEN "orders" ELSE AfterRaise("get_positions", "orders")
    /\ calls' = Append(calls, "get_positions")
    /\ UNCHANGED <<exchange, env, environ, SNAPSHOT_CACHE, tickerArgs>>
    /\ UNCHANGED <<cfg, engIn, engOut, now, cache, placed, fs, http, fetchLog>>

\* orders = {}; try: orders = self.kalshi.get_orders(status="executed")
GetOrders ==
    /\ pc = "orders"
    /\ \E resp \in Answers("get_orders", {"orders"}, "orders") :
         /\ last' = Step("get_orders", resp.ok)
         /\ loc' = [loc EXCEPT !.orders = resp.body]
         /\ pc' = IF resp.ok THEN "exposure" ELSE AfterRaise("get_orders", "exposure")
    /\ calls' = Append(calls, "get_orders")
    /\ UNCHANGED <<exchange, env, environ, SNAPSHOT_CACHE, tickerArgs>>
    /\ UNCHANGED <<cfg, engIn, engOut, now, cache, placed, fs, http, fetchLog>>

\* The exchange's side of the account, for the ticker the bot trades: the
\* contracts it holds and the contracts of its accepted orders that rest
\* unfilled.  None in a run that does not follow the account.
Ledger(held, resting) == Some([held |-> held, resting |-> resting])

\* What get_positions() lists for the account: the held contracts.
HeldPositions(x, ticker) ==
    IF IsNone(x) \/ Val(x).held = 0 THEN <<>> ELSE <<Position(ticker, Val(x).held)>>

\* The account after place_order(count=n) was accepted: a resting buy order.
Accepted(x, n) ==
    IF IsNone(x) THEN x ELSE Ledger(Val(x).held, Val(x).resting + n)

\* The resting orders are matched: their contracts are now held.
Fill ==
    /\ ~IsNone(exchange)
    /\ Val(exchange).resting > 0
    /\ exchange' = Ledger(Val(exchange).held + Val(exchange).resting, 0)
    /\ UNCHANGED <<env, environ, SNAPSHOT_CACHE, tickerArgs>>
    /\ UNCHANGED <<cfg, engIn, engOut, pc, now, cache, loc, calls, placed, last, fs, http,
                   fetchLog>>

\* current_exposure = 0; if ticker: current_exposure = self.get_position_exposure(ticker)
GetExposure ==
    /\ pc = "exposure"
    /\ IF Truthy(loc.ticker)
       THEN \E resp \in Answers("get_positions:exposure", PositionBodies(Val(loc.ticker)),
                                HeldPositions(exchange, Val(loc.ticker))) :
              /\ last' = Step("get_positions:exposure", resp.ok)
              /\ loc' = [loc EXCEPT !.current_exposure =
                                        get_position_exposure(Val(loc.ticker), resp)]
              /\ pc' = IF resp.ok THEN "analyze"
                       ELSE AfterRaise("get_positions:exposure", "analyze")
              /\ calls' = Append(calls, "get_positions:exposure")
              /\ tickerArgs' = Append(tickerArgs,
                                      TickerUse("get_position_exposure", Val(loc.ticker)))
       ELSE /\ last' = Step("get_positions:exposure", TRUE)
            /\ loc' = [loc EXCEPT !.current_exposure = 0]
            /\ pc' = "analyze"
            /\ UNCHANGED <<calls, tickerArgs>>
    /\ UNCHANGED <<exchange, env, environ, SNAPSHOT_CACHE>>
    /\ UNCHANGED <<cfg, engIn, engOut, now, cache, placed, fs, http, fetchLog>>

\* ShouldPlace without the trade_enabled test.
ShouldPlaceAlways(c, ticker, analysis) ==
    analysis.has_opportunity /\ Truthy(ticker) /\ ~IsNone(analysis.order)

\* The condition under which run_heartbeat submits the order (bot.py 673, 680).
ShouldPlace(c, ticker, analysis) ==
    analysis.has_opportunity /\ c.trade_enabled /\ Truthy(ticker) /\ ~IsNone(analysis.order)

\* print_status(...) and analysis = self.analyze_opportunity(...)
Analyze ==
    /\ pc = "analyze"
    /\ LET a == analyze_opportunity(cfg, loc.weather_data, loc.market_data, loc.orderbook,
                                    loc.current_exposure, HourAt(now))
       IN /\ loc' = [loc EXCEPT !.analysis = Some(a)]
          /\ pc' = IF ShouldPlace(cfg, loc.ticker, a) THEN "place" ELSE "snapshot"
    /\ last' = Step("analyze_opportunity", TRUE)
    /\ calls' = Append(calls, "analyze_opportunity")
    /\ UNCHANGED <<exchange, env, environ, SNAPSHOT_CACHE, tickerArgs>>
    /\ UNCHANGED <<cfg, engIn, engOut, now, cache, placed, fs, http, fetchLog>>

\* self.kalshi.place_order(ticker=ticker, action='buy', side=..., count=..., ...)
PlaceOrder ==
    /\ pc = "place"
    /\ LET order == Val(Val(loc.analysis).order)
       IN /\ placed' = Append(placed, [ticker |-> Val(loc.ticker), side |-> order.side,
                                       count |-> order.count, price |-> order.price])
          /\ \E resp \in Answers("place_order", {"order"}, "order") :
               /\ last' = Step("place_order", resp.ok)
               /\ pc' = IF resp.ok THEN "snapshot" ELSE AfterRaise("place_order", "snapshot")
               /\ exchange' = IF resp.ok THEN Accepted(exchange, order.count) ELSE exchange
    /\ calls' = Append(calls, "place_order")
    /\ tickerArgs' = Append(tickerArgs, TickerUse("place_order", Val(loc.ticker)))
    /\ UNCHANGED <<env, environ, SNAPSHOT_CACHE>>
    /\ UNCHANGED <<cfg, engIn, engOut, now, cache, loc, fs, http, fetchLog>>

-----------------------------------------------------------------------------
(* The snapshot file.  fs maps "snap" (BOT_SNAPSHOT_FILE) and "tmp" (the     *)
(* same path with ".tmp" appended) to None (no such file) or to the file's   *)
(* content: the document being written, identified by its "timestamp"        *)
(* field, and how many of its SnapChunks buffer flushes have reached it.     *)

\* The paths the model follows: the two above and one more file a web
\* process may be pointed at.
Paths == {"snap", "tmp", "alt"}

Doc(stamp, len) == [stamp |-> stamp, len |-> len]
Complete(f) == ~IsNone(f) /\ Val(f).len = SnapChunks

\* OpenPath of a writer that writes the snapshot file in place.
OpenPathInPlace == "snap"

\* The path run_heartbeat opens for writing: tmp_file = f"{snapshot_file}.tmp".
OpenPath == "tmp"

\* market_info of the snapshot step of run_heartbeat:
\*   market_data.get("market") if isinstance(market_data, dict) else {}
\* It is None when market_data has no "market" key, and the next line,
\* market_info.get("ticker"), then raises AttributeError.
SnapshotMarketInfo(market_data) == market_data.market
BuildRaises(l) == IsNone(SnapshotMarketInfo(l.market_data))

\* How a file operation may end in this run.
IoOutcomes == IF "io" \in env.flaky THEN {"", "OSError"} ELSE {""}

\* Building the snapshot dict and open(tmp_file, "w").
SnapshotOpen ==
    /\ pc = "snapshot"
    /\ IF BuildRaises(loc)
       THEN /\ last' = SnapStep(FALSE, "AttributeError")
            /\ pc' = AfterRaise("write_snapshot", "sleep")
            /\ UNCHANGED fs
       ELSE \E err \in IoOutcomes :
            IF err = ""
            THEN /\ fs' = [fs EXCEPT ![OpenPath] = Some(Doc(now, 0))]
                 /\ last' = Step("open", TRUE)
                 /\ pc' = "snap_write"
            ELSE /\ last' = SnapStep(FALSE, err)
                 /\ pc' = AfterRaise("write_snapshot", "sleep")
                 /\ UNCHANGED fs
    /\ UNCHANGED <<exchange, env, environ, SNAPSHOT_CACHE, tickerArgs>>
    /\ UNCHANGED <<cfg, engIn, engOut, now, cache, loc, calls, placed, http, fetchLog>>

\* json.dump(snapshot, f): one buffer flush, or an I/O error; leaving the
\* with-block after the last flush closes the file.
SnapshotWrite ==
    /\ pc = "snap_write"
    /\ \E err \in IoOutcomes :
         IF err = "" /\ ~IsNone(fs[OpenPath])
         THEN LET d == Val(fs[OpenPath])
              IN /\ fs' = [fs EXCEPT ![OpenPath] = Some(Doc(d.stamp, d.len + 1))]
                 /\ pc' = IF d.len + 1 = SnapChunks THEN "snap_replace" ELSE "snap_write"
                 /\ last' = Step("write", TRUE)
         ELSE /\ last' = SnapStep(FALSE, "OSError")
              /\ pc' = AfterRaise("write_snapshot", "sleep")
              /\ UNCHANGED fs
    /\ UNCHANGED <<exchange, env, environ, SNAPSHOT_CACHE, tickerArgs>>
    /\ UNCHANGED <<cfg, engIn, engOut, now, cache, loc, calls, placed, http, fetchLog>>

\* os.replace(tmp_file, snapshot_file)
SnapshotReplace ==
    /\ pc = "snap_replace"
    /\ IF IsNone(fs["tmp"])
       THEN /\ last' = SnapStep(FALSE, "OSError")
            /\ pc' = AfterRaise("write_snapshot", "sleep")
            /\ UNCHANGED fs
       ELSE /\ fs' = [fs EXCEPT !["snap"] = fs["tmp"], !["tmp"] = None]
            /\ last' = SnapStep(TRUE, "")
            /\ pc' = "sleep"
    /\ UNCHANGED <<exchange, env, environ, SNAPSHOT_CACHE, tickerArgs>>
    /\ UNCHANGED <<cfg, engIn, engOut, now, cache, loc, calls, placed, http, fetchLog>>

\* time.sleep(interval), then the next iteration of while True.
Sleep ==
    /\ pc = "sleep"
    /\ \E dt \in 1..MaxDt :
         /\ now + dt <= EndTime
         /\ now' = now + dt
    /\ pc' = "status"
    /\ loc' = NoLocals
    /\ calls' = <<>>
    /\ placed' = <<>>
    /\ last' = Step("sleep", TRUE)
    /\ tickerArgs' = <<>>
    /\ UNCHANGED <<exchange, env, environ, SNAPSHOT_CACHE>>
    /\ UNCHANGED <<cfg, engIn, engOut, cache, fs, http, fetchLog>>

\* _cached_* and _last_*_ts as __init__ sets them.
InitCache == [em |-> Entry0(<<>>), eob |-> Entry0(<<>>), om |-> Entry0(None)]
InitFetchLog == [em |-> None, eob |-> None, om |-> None]

\* The process is killed (external termination): its memory is gone, the
\* files stay as they are.
Kill ==
    /\ pc \notin {"dead", "aborted", "engine", "engine_done"}
    /\ pc' = "dead"
    /\ loc' = NoLocals
    /\ calls' = <<>>
    /\ placed' = <<>>
    /\ cache' = InitCache
    /\ fetchLog' = InitFetchLog
    /\ last' = Step("killed", FALSE)
    /\ tickerArgs' = <<>>
    /\ UNCHANGED <<exchange, env, environ, SNAPSHOT_CACHE>>
    /\ UNCHANGED <<cfg, engIn, engOut, now, fs, http>>

-----------------------------------------------------------------------------
(* The web application (src/app/web/app.py).                                *)

Response(code, body) == [code |-> code, body |-> body]

\* Keyword arguments _init_bot passes to WeatherTradingBot(...), and the
\* parameters WeatherTradingBot.__init__ declares (it takes no **kwargs).
InitBotKwargs ==
    {"api_key_id", "private_key_path", "base_url", "series_ticker", "event_ticker",
     "market_ticker_override", "request_timeout", "max_retries", "backoff_factor",
     "weather_timeout", "orderbook_depth", "event_market_limit", "event_orderbook_limit",
     "event_markets_interval", "event_orderbook_interval", "event_orderbook_workers",
     "open_meteo_enabled", "open_meteo_lat", "open_meteo_lon", "open_meteo_interval",
     "open_meteo_workers", "max_order_size", "max_position", "min_edge_cents",
     "fee_cents", "trade_enabled", "orders_note"}
BotInitParams ==
    {"api_key_id", "private_key_path", "base_url", "series_ticker", "event_ticker",
     "market_ticker_override", "request_timeout", "max_retries", "backoff_factor",
     "weather_timeout", "orderbook_depth", "event_market_limit", "event_orderbook_limit",
     "event_markets_interval", "event_orderbook_interval",
     "open_meteo_enabled", "open_meteo_lat", "open_meteo_lon", "open_meteo_interval",
     "max_order_size", "max_position", "min_edge_cents",
     "fee_cents", "trade_enabled", "orders_note"}

\* POST /api/snapshot/refresh.  _init_bot() returns an error when
\* KALSHI_API_KEY is unset (400); otherwise it calls WeatherTradingBot with
\* keyword arguments the constructor does not declare, which raises TypeError
\* outside the handler's try block (500).  _build_snapshot and
\* _write_snapshot come after the constructor call and are reached only if it
\* returns, which it does for no input.
snapshot_refresh ==
    /\ \E hasKey \in BOOLEAN :
         /\ ~hasKey \/ ~(InitBotKwargs \subseteq BotInitParams)
         /\ http' = IF ~hasKey THEN Response(400, None) ELSE Response(500, None)
    /\ UNCHANGED <<exchange, env, environ, SNAPSHOT_CACHE, tickerArgs>>
    /\ UNCHANGED <<cfg, engIn, engOut, pc, now, cache, loc, calls, placed, last, fs,
                   fetchLog>>

\* SNAPSHOT_CACHE_TTL when the variable is unset: _get_env_float(..., 2.0),
\* in ticks of the clock.
DefaultSnapshotCacheTtl == 2

\* os.environ of a freshly started web process, and _SNAPSHOT_CACHE as the
\* module creates it.
InitEnviron == [BOT_SNAPSHOT_FILE |-> "snap", SNAPSHOT_CACHE_TTL |-> DefaultSnapshotCacheTtl]
InitSnapshotCache == [ts |-> 0, data |-> None]

\* cached is not None and now - _SNAPSHOT_CACHE["ts"] < ttl
ServeCached(c, ttl, t) == ~IsNone(c.data) /\ t - c.ts < ttl

\* GET /api/snapshot: snapshot().  When the configured file exists the
\* handler answers from _SNAPSHOT_CACHE if that is younger than the TTL, and
\* otherwise reads the file, remembers what it read and answers with it (500
\* if the read fails); when the file does not exist it empties the cache and
\* answers 404.
snapshot ==
    /\ LET snapshot_file == environ.BOT_SNAPSHOT_FILE
           ttl == environ.SNAPSHOT_CACHE_TTL
       IN IF ~IsNone(fs[snapshot_file])
          THEN IF ServeCached(SNAPSHOT_CACHE, ttl, now)
               THEN /\ http' = Response(200, SNAPSHOT_CACHE.data)
                    /\ UNCHANGED SNAPSHOT_CACHE
               ELSE \E err \in IoOutcomes :
                    IF err = ""
                    THEN /\ SNAPSHOT_CACHE' = [ts |-> now, data |-> fs[snapshot_file]]
                         /\ http' = Response(200, fs[snapshot_file])
                    ELSE /\ http' = Response(500, None)
                         /\ UNCHANGED SNAPSHOT_CACHE
          ELSE /\ SNAPSHOT_CACHE' = InitSnapshotCache
               /\ http' = Response(404, None)
    /\ UNCHANGED <<exchange, env, environ, tickerArgs>>
    /\ UNCHANGED <<cfg, engIn, engOut, pc, now, cache, loc, calls, placed, last, fs, fetchLog>>

-----------------------------------------------------------------------------
(* Configurations and specifications.                                       *)

\* Defaults of WeatherTradingBot.__init__.
DefaultMaxOrderSize == 5
DefaultMaxPosition == 20
DefaultMinEdgeCents == 2
DefaultEventOrderbookLimit == 50

\* A bot configuration; the arguments not listed keep their defaults.
Config(te, ov, emi, eoi, ome, omi) ==
    [trade_enabled |-> te, market_ticker_override |-> ov,
     series_ticker |-> Some("KXHIGHMIA"), event_ticker |-> Some("KXHIGHMIA-03NOV26"),
     event_orderbook_limit |-> DefaultEventOrderbookLimit,
     event_markets_interval |-> emi, event_orderbook_interval |-> eoi,
     open_meteo_enabled |-> ome, open_meteo_interval |-> omi,
     max_order_size |-> DefaultMaxOrderSize, max_position |-> DefaultMaxPosition,
     min_edge_cents |-> DefaultMinEdgeCents, fee_cents |-> 0]

\* The state after WeatherTradingBot(...) with configuration c, about to
\* enter run_heartbeat in environment e.
StartWith(c, e, x) ==
    /\ exchange = x
    /\ cfg = c
    /\ env = e
    /\ engIn = None
    /\ engOut = None
    /\ pc = "status"
    /\ now = StartTime
    /\ cache = InitCache
    /\ loc = NoLocals
    /\ calls = <<>>
    /\ placed = <<>>
    /\ last = Step("start", TRUE)
    /\ fs = [p \in Paths |-> None]
    /\ http = Response(0, None)
    /\ fetchLog = InitFetchLog
    /\ environ = InitEnviron
    /\ SNAPSHOT_CACHE = InitSnapshotCache
    /\ tickerArgs = <<>>

Start(c, e) == StartWith(c, e, None)

\* One step of run_heartbeat.
LoopStep ==
    \/ ExchangeStatus
    \/ GetWeather
    \/ GetOpenMeteoCached
    \/ GetEventMarketsCached
    \/ GetEventOrderbooksCached
    \/ ResolveTicker
    \/ GetMarketData
    \/ GetOrderbook
    \/ GetBalance
    \/ GetPositions
    \/ GetOrders
    \/ GetExposure
    \/ Analyze
    \/ PlaceOrder
    \/ SnapshotOpen
    \/ SnapshotWrite
    \/ SnapshotReplace
    \/ Sleep

\* The run loop against an exchange every call of which may fail.
Init ==
    \E te \in BOOLEAN, ov \in {None, Some(Override)} :
        Start(Config(te, ov, MaxInterval, MaxInterval, TRUE, MaxInterval),
              [flaky |-> ExchangeSites,
               rich |-> {"get_exchange_status", "get_market", "get_series"}])

Next == LoopStep

Spec == Init /\ [][Next]_vars

\* The run loop with every choice of the refresh intervals, against event and
\* forecast upstreams that fail and vary.
InitRefresh ==
    \E emi \in 1..MaxInterval, eoi \in 1..MaxInterval, ome \in BOOLEAN, omi \in 1..MaxInterval :
        Start(Config(TRUE, None, emi, eoi, ome, omi),
              [flaky |-> {"get_markets:event", "get_market_orderbook:event"},
               rich |-> {"get_markets:event", "get_daily_highs"}])

NextRefresh == LoopStep

SpecRefresh == InitRefresh /\ [][NextRefresh]_vars

\* The run loop writing the snapshot file while web clients read it and ask
\* for a refresh, with file operations that may fail and a process that may be
\* killed at any point.
InitFiles ==
    Start(Config(TRUE, None, MaxInterval, MaxInterval, TRUE, MaxInterval),
          [flaky |-> {"get_market", "io"}, rich |-> {"get_miami_data"}])

NextFiles ==
    \/ LoopStep
    \/ Kill
    \/ snapshot_refresh
    \/ snapshot

SpecFiles == InitFiles /\ [][NextFiles]_vars

\* The run loop with auto-trading against an account the run follows from
\* cycle to cycle: some contracts are held at the start, accepted orders rest
\* until they are filled, and get_positions() lists what is held or fails.
StartHoldings == {0, DefaultMaxPosition - DefaultMaxOrderSize, DefaultMaxPosition}

InitTrading ==
    \E h \in StartHoldings, ov \in {None, Some(Override)} :
        StartWith(Config(TRUE, ov, MaxInterval, MaxInterval, TRUE, MaxInterval),
                  [flaky |-> {"get_positions:exposure", "place_order"}, rich |-> {}],
                  Ledger(h, 0))

NextTrading ==
    \/ LoopStep
    \/ Fill

SpecTrading == InitTrading /\ [][NextTrading]_vars

-----------------------------------------------------------------------------
(* The Opportunity Engine on its own: one call of analyze_opportunity with   *)
(* arguments and a configuration drawn from the sets below.                  *)

CoolWeather == [current_temp |-> Some(70), high_today |-> Some(72)]

EngineConfigs ==
    {[max_order_size |-> mos, max_position |-> mp, min_edge_cents |-> me, fee_cents |-> fee] :
        mos \in {0, 2, DefaultMaxOrderSize}, mp \in {3, DefaultMaxPosition},
        me \in {DefaultMinEdgeCents, DefaultMinEdgeCents + 1}, fee \in {0, Micro \div 2}}

EngineOrderbooks ==
    {EmptyOrderbook}
    \cup {Orderbook(<<Bid(Some(p), Some(10))>>, no) :
            p \in {40, 96, 97, 98}, no \in {<<>>, <<Bid(Some(55), Some(5))>>}}

\* Readings with a temperature of 0 degrees and with one value missing.
ZeroTempWeather == [current_temp |-> Some(0), high_today |-> Some(76)]
ZeroHighWeather == [current_temp |-> Some(74), high_today |-> Some(0)]
NoHighWeather == [current_temp |-> Some(74), high_today |-> None]

\* Market details and order books at the edges of the pricing step: no last
\* price, a last price of 0 or 100, no market at all; a book with a NO side
\* only, with a bid that carries no price, and with bids that make the two
\* EVs equal for a 72-degree high at 9 o'clock (77 - 60 = 23 - 6).
EdgeMarkets ==
    {EmptyMarketData}
    \cup {MarketData(Some(get_todays_market_ticker(Today)), Some(TitleMojibake), price) :
            price \in {None, Some(0), Some(40), Some(100)}}
EdgeOrderbooks ==
    {EmptyOrderbook,
     Orderbook(<<>>, <<Bid(Some(6), Some(5))>>),
     Orderbook(<<Bid(Some(60), Some(10))>>, <<Bid(Some(6), Some(5))>>),
     Orderbook(<<Bid(Some(60), Some(10))>>, <<Bid(Some(7), Some(5))>>),
     Orderbook(<<Bid(None, Some(10))>>, <<>>),
     Orderbook(<<Bid(Some(0), Some(10))>>, <<>>)}

EngineInputs ==
    {[c |-> c, weather_data |-> w,
      market_data |-> MarketData(Some(get_todays_market_ticker(Today)), Some(title), Some(40)),
      orderbook |-> ob, current_exposure |-> x, hour |-> h] :
        c \in EngineConfigs, w \in {GoodWeather, CoolWeather},
        title \in {TitleDegree, TitleMojibake}, ob \in EngineOrderbooks,
        x \in {0, 2, 3, DefaultMaxPosition, DefaultMaxPosition + 1}, h \in {9, 21}}
    \cup
    {[c |-> c, weather_data |-> w, market_data |-> m,
      orderbook |-> ob, current_exposure |-> x, hour |-> h] :
        c \in {k \in EngineConfigs : k.max_order_size = DefaultMaxOrderSize /\ k.fee_cents = 0},
        w \in {GoodWeather, CoolWeather, EmptyWeather, ZeroTempWeather, ZeroHighWeather,
               NoHighWeather},
        m \in EdgeMarkets, ob \in EdgeOrderbooks, x \in {0, 18}, h \in {9, 21}}

\* analysis = bot.analyze_opportunity(weather_data, market_data, orderbook, current_exposure)
AnalyzeCall ==
    /\ pc = "engine"
    /\ engOut' = Some(analyze_opportunity(engIn.c, engIn.weather_data, engIn.market_data,
                                          engIn.orderbook, engIn.current_exposure, engIn.hour))
    /\ pc' = "engine_done"
    /\ UNCHANGED <<exchange, env, environ, SNAPSHOT_CACHE, tickerArgs>>
    /\ UNCHANGED <<cfg, engIn, now, cache, loc, calls, placed, last, fs, http, fetchLog>>

InitEngine ==
    /\ engIn \in EngineInputs
    /\ engOut = None
    /\ pc = "engine"
    /\ cfg = Config(FALSE, None, MaxInterval, MaxInterval, TRUE, MaxInterval)
    /\ env = [flaky |-> {}, rich |-> {}]
    /\ exchange = None
    /\ now = StartTime
    /\ cache = InitCache
    /\ loc = NoLocals
    /\ calls = <<>>
    /\ placed = <<>>
    /\ last = Step("start", TRUE)
    /\ fs = [p \in Paths |-> None]
    /\ http = Response(0, None)
    /\ fetchLog = InitFetchLog
    /\ environ = InitEnviron
    /\ SNAPSHOT_CACHE = InitSnapshotCache
    /\ tickerArgs = <<>>

NextEngine == AnalyzeCall

SpecEngine == InitEngine /\ [][NextEngine]_vars

-----------------------------------------------------------------------------
(* The Ticker Resolver on its own: one call of resolve_market_ticker with a  *)
(* configuration, a date, and answers of get_series and get_markets drawn    *)
(* from the sets below.                                                      *)

\* The clock at the call; close times are placed around it.
ResolverNow == StartTime + 1

ResolverDates == {Date(3, 11, 2026), Date(31, 12, 2026), Date(9, 2, 2005)}

ResolverConfigs ==
    {[Config(FALSE, ov, MaxInterval, MaxInterval, TRUE, MaxInterval)
         EXCEPT !.series_ticker = st] :
        ov \in {None, Some(Override), Some(EmptyTicker)},
        st \in {Some("KXHIGHMIA"), Some("KXHIGHNY"), Some("")}}

\* What get_series may list on a given day.
ResolverSeries(today) ==
    {<<>>,
     <<Entry(Some(get_todays_market_ticker(today)), NoClose)>>,
     <<OtherEntry, StrEntry(get_todays_market_ticker(today))>>,
     <<OtherEntry, Entry(Some(ListedTicker), NoClose), Entry(None, NoClose)>>}

\* Elements of an open-markets listing: close times after, at and before the
\* clock in each encoding, a dict without a ticker, one with an empty ticker,
\* unparseable and missing close times, a close_ts that does not parse next to
\* a close_time that does, a NaN close time, and elements that are no dicts.
ResolverEntries ==
    {Entry(Some(ListedTicker), CloseAt("iso", ResolverNow + 2)),
     Entry(Some(Ticker("KXHIGHMIA", "05NOV26")), CloseAt("int", ResolverNow + 1)),
     Entry(Some(Ticker("KXHIGHMIA", "06NOV26")), CloseAt("digits", ResolverNow)),
     Entry(Some(Ticker("KXHIGHMIA", "02NOV26")), CloseAt("int", ResolverNow - 1)),
     Entry(None, CloseAt("int", ResolverNow + 1)),
     Entry(Some(EmptyTicker), CloseAt("iso", ResolverNow + 1)),
     Entry(Some(Ticker("KXHIGHMIA", "07NOV26")), CloseAt("text", 0)),
     Entry(Some(Ticker("KXHIGHMIA", "08NOV26")), NoClose),
     Entry(Some(Ticker("KXHIGHMIA", "09NOV26")),
           <<[kind |-> "text", v |-> 0], [kind |-> "int", v |-> ResolverNow]>>),
     Entry(Some(Ticker("KXHIGHMIA", "10NOV26")), CloseAt("nan", 0)),
     StrEntry(Ticker("KXHIGHMIA", "11NOV26")),
     OtherEntry}

ResolverListings ==
    {<<>>} \cup {<<e>> : e \in ResolverEntries}
           \cup {<<e, f>> : e \in ResolverEntries, f \in ResolverEntries}

\* ticker = bot.resolve_market_ticker()
ResolveCall ==
    /\ pc = "resolver"
    /\ engOut' = Some(resolve_market_ticker(engIn.c, engIn.seriesResp, engIn.marketsResp,
                                            engIn.now_ts, engIn.today))
    /\ pc' = "resolver_done"
    /\ UNCHANGED <<exchange, env, environ, SNAPSHOT_CACHE, tickerArgs>>
    /\ UNCHANGED <<cfg, engIn, now, cache, loc, calls, placed, last, fs, http, fetchLog>>

\* The state of a process that makes one call of a function under test.
Idle(c) ==
    /\ cfg = c
    /\ env = [flaky |-> {}, rich |-> {}]
    /\ exchange = None
    /\ engOut = None
    /\ now = StartTime
    /\ cache = InitCache
    /\ loc = NoLocals
    /\ calls = <<>>
    /\ placed = <<>>
    /\ last = Step("start", TRUE)
    /\ fs = [p \in Paths |-> None]
    /\ http = Response(0, None)
    /\ fetchLog = InitFetchLog
    /\ environ = InitEnviron
    /\ SNAPSHOT_CACHE = InitSnapshotCache
    /\ tickerArgs = <<>>

InitResolver ==
    /\ \E c \in ResolverConfigs, d \in ResolverDates :
         \E sr \in {Raised} \cup {Returned(b) : b \in ResolverSeries(d)},
            mr \in {Raised} \cup {Returned(b) : b \in ResolverListings} :
              engIn = [c |-> c, seriesResp |-> sr, marketsResp |-> mr,
                       now_ts |-> ResolverNow, today |-> d]
    /\ pc = "resolver"
    /\ Idle(engIn.c)

NextResolver == ResolveCall

SpecResolver == InitResolver /\ [][NextResolver]_vars

-----------------------------------------------------------------------------
(* The Condition Parser and the Probability Model on their own: one call of  *)
(* one of the four functions of src/app/domain/opportunity.py.               *)

\* Largest |diff| and the daily highs the probability functions are called with.
MaxDiff == 12
DomainHighs == 70..78
Hours == 0..23

\* The titles of src/tests/test_opportunity.py, as written there ("°F") and
\* after a UTF-8/Latin-1 round trip ("Â°F"), a title without a unit, and None.
TitleBetween(mark) ==
    <<Word("will the high be"), Word("between"), Temp(72, mark), Word("and"), Temp(73, mark)>>
TitleAtLeast(mark) == <<Word("will the high be"), Word("at least"), Temp(75, mark)>>
TitleAtMost(mark) == <<Word("will the high be"), Word("at most"), Temp(65, mark)>>
\* Titles that mix the words the parser looks for: a range word or none, a
\* gte keyword or none, an lte keyword or none, followed by up to three
\* temperatures the pattern extracts.
MixedTitle(range, gte, lte, temps) ==
    (IF range # "" THEN <<Word(range)>> ELSE <<>>)
    \o (IF gte # "" THEN <<Word(gte)>> ELSE <<>>)
    \o (IF lte # "" THEN <<Word(lte)>> ELSE <<>>)
    \o [i \in 1..Len(temps) |-> Temp(temps[i], "Â°F")]
MixedTitles ==
    {MixedTitle(r, g, l, ts) :
        r \in {"", "between", " to "}, g \in {""} \cup GteKeywords,
        l \in {""} \cup LteKeywords, ts \in {<<>>, <<80>>, <<80, 70>>, <<70, 80, 60>>}}

DomainTitles ==
    {None, <<Word("will it rain")>>}
    \cup UNION {{TitleBetween(m), TitleAtLeast(m), TitleAtMost(m)} : m \in {"°F", "Â°F", "F"}}
    \cup MixedTitles

Gte(t) == [type |-> "gte", threshold |-> t, low |-> None, high |-> None]
Lte(t) == [type |-> "lte", threshold |-> t, low |-> None, high |-> None]
DomainConditions == {Gte(Some(75)), Gte(Some(72)), Gte(None), Lte(Some(75)), NoCondition}

DomainInputs ==
    {[fn |-> "parse_market_condition", title |-> t] : t \in DomainTitles}
    \cup {[fn |-> "estimate_prob_reach_threshold", diff |-> d, hour |-> h] :
            d \in (0 - MaxDiff)..MaxDiff, h \in Hours}
    \cup {[fn |-> "estimate_prob_no_new_high", hour |-> h] : h \in Hours}
    \cup {[fn |-> "estimate_prob_yes", condition |-> c, high_today |-> x, hour |-> h] :
            c \in DomainConditions, x \in {None} \cup {Some(v) : v \in DomainHighs},
            h \in Hours}

ParseCall ==
    /\ pc = "domain"
    /\ engIn.fn = "parse_market_condition"
    /\ engOut' = Some(parse_market_condition(engIn.title))
    /\ pc' = "domain_done"
    /\ UNCHANGED <<exchange, env, environ, SNAPSHOT_CACHE, tickerArgs>>
    /\ UNCHANGED <<cfg, engIn, now, cache, loc, calls, placed, last, fs, http, fetchLog>>

ReachCall ==
    /\ pc = "domain"
    /\ engIn.fn = "estimate_prob_reach_threshold"
    /\ engOut' = Some(estimate_prob_reach_threshold(engIn.diff, engIn.hour))
    /\ pc' = "domain_done"
    /\ UNCHANGED <<exchange, env, environ, SNAPSHOT_CACHE, tickerArgs>>
    /\ UNCHANGED <<cfg, engIn, now, cache, loc, calls, placed, last, fs, http, fetchLog>>

NoNewHighCall ==
    /\ pc = "domain"
    /\ engIn.fn = "estimate_prob_no_new_high"
    /\ engOut' = Some(estimate_prob_no_new_high(engIn.hour))
    /\ pc' = "domain_done"
    /\ UNCHANGED <<exchange, env, environ, SNAPSHOT_CACHE, tickerArgs>>
    /\ UNCHANGED <<cfg, engIn, now, cache, loc, calls, placed, last, fs, http, fetchLog>>

ProbYesCall ==
    /\ pc = "domain"
    /\ engIn.fn = "estimate_prob_yes"
    /\ engOut' = Some(estimate_prob_yes(engIn.condition, engIn.high_today, engIn.hour))
    /\ pc' = "domain_done"
    /\ UNCHANGED <<exchange, env, environ, SNAPSHOT_CACHE, tickerArgs>>
    /\ UNCHANGED <<cfg, engIn, now, cache, loc, calls, placed, last, fs, http, fetchLog>>

InitDomain ==
    /\ engIn \in DomainInputs
    /\ pc = "domain"
    /\ Idle(Config(FALSE, None, MaxInterval, MaxInterval, TRUE, MaxInterval))

NextDomain ==
    \/ ParseCall
    \/ ReachCall
    \/ NoNewHighCall
    \/ ProbYesCall

SpecDomain == InitDomain /\ [][NextDomain]_vars

-----------------------------------------------------------------------------
(* get_position_exposure on its own: one call for a ticker, with the answer  *)
(* of get_positions drawn from the lists below.                              *)

\* Entries for ticker t: one of the count fields set, two of them set, only
\* sub-positions, nothing at all, and an entry that is not a dict.
ExposureValues == {0 - 3, 0, 4}
ExposureEntries(t) ==
    {PositionEntry(t, [NoFields EXCEPT ![PositionKeys[k]] = Some(v)]) :
        k \in 1..Len(PositionKeys), v \in ExposureValues}
    \cup {PositionEntry(t, [NoFields EXCEPT !.count = Some(v), !.net_position = Some(7)]) :
            v \in ExposureValues}
    \cup {PositionEntry(t, [NoFields EXCEPT !.yes = y, !.no = n]) :
            y \in {None, Some(0), Some(2)}, n \in {None, Some(0 - 5)}}
    \cup {PositionEntry(t, [NoFields EXCEPT !.yes = Some(0), !.yes_position = Some(6),
                                           !.no_position = n]) : n \in {None, Some(1)}}
    \cup {OtherPosition}
ExposureLists ==
    LET es == ExposureEntries(ListedTicker) \cup {Position(Override, 9)}
    IN {<<>>} \cup {<<e>> : e \in es}
       \cup {<<d, e>> : d \in {OtherPosition, Position(Override, 9),
                                PositionEntry(ListedTicker, NoFields),
                                Position(ListedTicker, 0 - 2)},
                       e \in es}

\* current_exposure = bot.get_position_exposure(ticker)
ExposureCall ==
    /\ pc = "exposure_fn"
    /\ engOut' = Some(get_position_exposure(engIn.ticker, engIn.positionsResp))
    /\ pc' = "exposure_fn_done"
    /\ UNCHANGED <<exchange, env, environ, SNAPSHOT_CACHE, tickerArgs>>
    /\ UNCHANGED <<cfg, engIn, now, cache, loc, calls, placed, last, fs, http, fetchLog>>

InitExposure ==
    /\ \E r \in {Raised} \cup {Returned(b) : b \in ExposureLists} :
         engIn = [ticker |-> ListedTicker, positionsResp |-> r]
    /\ pc = "exposure_fn"
    /\ Idle(Config(FALSE, None, MaxInterval, MaxInterval, TRUE, MaxInterval))

NextExposure == ExposureCall

SpecExposure == InitExposure /\ [][NextExposure]_vars

-----------------------------------------------------------------------------
(* The web application on its own: GET /api/snapshot and POST                *)
(* /api/snapshot/refresh requests while the snapshot files are written and   *)
(* removed, BOT_SNAPSHOT_FILE is changed and time passes, as                 *)
(* src/tests/test_app_snapshot.py sets a request up.                         *)

\* snapshot_path.write_text(json.dumps(snapshot)): the file at path p holds a
\* complete document, stamped with the time of writing.
WriteText ==
    /\ pc = "web"
    /\ \E p \in {"snap", "alt"} : fs' = [fs EXCEPT ![p] = Some(Doc(now, SnapChunks))]
    /\ UNCHANGED <<exchange, env, environ, SNAPSHOT_CACHE, tickerArgs>>
    /\ UNCHANGED <<cfg, engIn, engOut, pc, now, cache, loc, calls, placed, last, http, fetchLog>>

\* The file at path p is removed.
RemoveFile ==
    /\ pc = "web"
    /\ \E p \in {"snap", "alt"} :
         /\ ~IsNone(fs[p])
         /\ fs' = [fs EXCEPT ![p] = None]
    /\ UNCHANGED <<exchange, env, environ, SNAPSHOT_CACHE, tickerArgs>>
    /\ UNCHANGED <<cfg, engIn, engOut, pc, now, cache, loc, calls, placed, last, http, fetchLog>>

\* monkeypatch.setenv("BOT_SNAPSHOT_FILE", str(snapshot_path))
Setenv ==
    /\ pc = "web"
    /\ \E p \in {"snap", "alt"} :
         /\ p # environ.BOT_SNAPSHOT_FILE
         /\ environ' = [environ EXCEPT !.BOT_SNAPSHOT_FILE = p]
    /\ UNCHANGED <<exchange, env, SNAPSHOT_CACHE, tickerArgs>>
    /\ UNCHANGED <<cfg, engIn, engOut, pc, now, cache, loc, calls, placed, last, fs, http,
                   fetchLog>>

\* The clock of the web process advances.
Tick ==
    /\ pc = "web"
    /\ now < EndTime
    /\ now' = now + 1
    /\ UNCHANGED <<exchange, env, environ, SNAPSHOT_CACHE, tickerArgs>>
    /\ UNCHANGED <<cfg, engIn, engOut, pc, cache, loc, calls, placed, last, fs, http, fetchLog>>

InitWeb ==
    /\ engIn = None
    /\ pc = "web"
    /\ Idle(Config(FALSE, None, MaxInterval, MaxInterval, TRUE, MaxInterval))

NextWeb ==
    \/ snapshot
    \/ snapshot_refresh
    \/ WriteText
    \/ RemoveFile
    \/ Setenv
    \/ Tick

SpecWeb == InitWeb /\ [][NextWeb]_vars

-----------------------------------------------------------------------------
(* Properties.                                                              *)

CacheCalls ==
    {"get_event_markets_cached", "get_event_orderbooks_cached", "get_open_meteo_cached"}

\* The interval, the entry and the cycle's local of the cache a getter serves.
IntervalOf(name) ==
    CASE name = "get_event_markets_cached" -> cfg.event_markets_interval
      [] name = "get_event_orderbooks_cached" -> cfg.event_orderbook_interval
      [] name = "get_open_meteo_cached" -> cfg.open_meteo_interval
EntryOf(name) ==
    CASE name = "get_event_markets_cached" -> cache.em
      [] name = "get_event_orderbooks_cached" -> cache.eob
      [] name = "get_open_meteo_cached" -> cache.om
LocalOf(name) ==
    CASE name = "get_event_markets_cached" -> loc.event_markets
      [] name = "get_event_orderbooks_cached" -> loc.event_orderbooks
      [] name = "get_open_meteo_cached" -> loc.open_meteo

\* The fetch last ran less than the interval before the call just made.
WithinInterval ==
    ~IsNone(last.prev) /\ now - Val(last.prev).at < IntervalOf(last.name)

\* The call just made was a call of a cache getter whose upstream is
\* configured (the forecast getter returns {} at once while Open-Meteo is
\* disabled).
CacheCalled ==
    /\ last.name \in CacheCalls
    /\ last.name = "get_open_meteo_cached" => cfg.open_meteo_enabled

EmptyResultOf(name) ==
    IF name = "get_open_meteo_cached" THEN Some(MeteoDict(<<None, None>>)) ELSE <<>>

\* C2: when a cache getter runs its fetch and the fetch fails or returns an
\* empty result, that result is the new cached value and the value returned,
\* whatever was cached before, and the entry's timestamp is the time of the
\* call.
C2_EmptyOverwrites ==
    (last.name \in CacheCalls /\ last.fetched = 1 /\ ~last.ok) =>
        /\ EntryOf(last.name).value = EmptyResultOf(last.name)
        /\ EntryOf(last.name).ts = now
        /\ LocalOf(last.name) = EmptyResultOf(last.name)

\* A refresh of the event listing failed after an earlier fetch had stored a
\* non-empty listing.
C2_Witness ==
    /\ last.name = "get_event_markets_cached"
    /\ last.fetched = 1
    /\ ~last.ok
    /\ ~IsNone(last.prev)
    /\ ~Val(last.prev).empty
    /\ cache.em.value = <<>>

C4_OrderPlacement ==
    /\ Len(placed) <= 1
    /\ Cardinality({i \in 1..Len(calls) : calls[i] = "place_order"}) = Len(placed)
    /\ (~cfg.trade_enabled => placed = <<>>)
    /\ (placed # <<>> =>
          /\ cfg.trade_enabled
          /\ ~IsNone(loc.analysis)
          /\ Val(loc.analysis).has_opportunity
          /\ ~IsNone(Val(loc.analysis).order)
          /\ placed[1] = [ticker |-> Val(loc.ticker),
                          side |-> Val(Val(loc.analysis).order).side,
                          count |-> Val(Val(loc.analysis).order).count,
                          price |-> Val(Val(loc.analysis).order).price])
    /\ ((last.name = "place_order" /\ ~last.ok) => pc = "snapshot")

\* A submission failed, in a cycle later than the first.
C4_Witness ==
    /\ last.name = "place_order"
    /\ ~last.ok
    /\ Len(placed) = 1
    /\ now > StartTime

\* C5: when current_exposure equals max_position, analyze_opportunity returns
\* has_opportunity = false and no order.
C5_NoOrderAtLimit ==
    (pc = "engine_done" /\ engIn.current_exposure = engIn.c.max_position) =>
        /\ ~Val(engOut).has_opportunity
        /\ IsNone(Val(engOut).order)

\* The engine got as far as sizing with exposure at the limit.
C5_Witness ==
    /\ pc = "engine_done"
    /\ engIn.current_exposure = engIn.c.max_position
    /\ engIn.c.max_order_size > 0
    /\ Val(engOut).reasoning[Len(Val(engOut).reasoning)]
         = "Position limit reached; skipping trade"

\* The prices of the two sides and the best EV of a call, as the spec defines
\* them: each side from its top bid, else YES from the last price and NO from
\* 100 - yes_price; EV = P(side) * 100 - price - fee; the best EV is the
\* larger of the EVs of the priced sides.  None when the engine computes no
\* EV: the weather gate stops it (a reading that is missing or 0), there is
\* no market detail, or the condition, the probability or both prices are
\* missing.
YesPriceOf(in) ==
    LET book == in.orderbook.orderbook
        top == IF ~IsNone(book) /\ Val(book).yes # <<>> THEN Val(book).yes[1].price ELSE None
    IN IF ~IsNone(top) THEN top ELSE Val(in.market_data.market).last_price
NoPriceOf(in) ==
    LET book == in.orderbook.orderbook
        top == IF ~IsNone(book) /\ Val(book).no # <<>> THEN Val(book).no[1].price ELSE None
    IN IF ~IsNone(top) THEN top
       ELSE IF IsNone(YesPriceOf(in)) THEN None ELSE Some(100 - Val(YesPriceOf(in)))
BestEvOf(in) ==
    IF \/ Falsy(in.weather_data.current_temp) \/ Falsy(in.weather_data.high_today)
       \/ IsNone(in.market_data.market)
    THEN None ELSE
    LET cond == parse_market_condition(Val(Val(in.market_data.market).title))
        prob == estimate_prob_yes(cond, in.weather_data.high_today, in.hour)
    IN IF cond.type \in {"none", "unknown"} \/ IsNone(prob) THEN None
       ELSE LET ey == Ev(Val(prob), YesPriceOf(in), in.c.fee_cents)
                en == Ev(Micro - Val(prob), NoPriceOf(in), in.c.fee_cents)
            IN IF IsNone(ey) THEN en
               ELSE IF IsNone(en) THEN ey
               ELSE Some(Max(Val(ey), Val(en)))

\* C6 as stated: no opportunity whenever the best EV is below min_edge_cents;
\* whenever it is at or above min_edge_cents and current_exposure <
\* max_position, an opportunity with count min(max_order_size, max_position -
\* current_exposure).
C6_AsStated ==
    (pc = "engine_done" /\ ~IsNone(BestEvOf(engIn))) =>
        LET a == Val(engOut)
            c == engIn.c
            ev == Val(BestEvOf(engIn))
        IN /\ (ev < c.min_edge_cents * Micro => ~a.has_opportunity)
           /\ ((ev >= c.min_edge_cents * Micro /\ engIn.current_exposure < c.max_position) =>
                 /\ a.has_opportunity
                 /\ ~IsNone(a.order)
                 /\ Val(a.order).count
                      = Min(c.max_order_size, c.max_position - engIn.current_exposure))

\* C6: no opportunity whenever the best EV is below min_edge_cents; whenever
\* it is at or above min_edge_cents, current_exposure < max_position and
\* max_order_size >= 1, an opportunity with count min(max_order_size,
\* max_position - current_exposure); with max_order_size <= 0 there is never
\* an opportunity.
C6_EdgeAndSize ==
    (pc = "engine_done" /\ ~IsNone(BestEvOf(engIn))) =>
        LET a == Val(engOut)
            c == engIn.c
            ev == Val(BestEvOf(engIn))
        IN /\ (ev < c.min_edge_cents * Micro => ~a.has_opportunity)
           /\ (c.max_order_size <= 0 => ~a.has_opportunity)
           /\ ((/\ ev >= c.min_edge_cents * Micro
                /\ engIn.current_exposure < c.max_position
                /\ c.max_order_size >= 1) =>
                 /\ a.has_opportunity
                 /\ ~IsNone(a.order)
                 /\ Val(a.order).count
                      = Min(c.max_order_size, c.max_position - engIn.current_exposure))

\* The best EV equals min_edge_cents and the order is capped by the remaining
\* capacity.
C6_Witness ==
    /\ pc = "engine_done"
    /\ ~IsNone(BestEvOf(engIn))
    /\ Val(BestEvOf(engIn)) = engIn.c.min_edge_cents * Micro
    /\ Val(engOut).has_opportunity
    /\ Val(Val(engOut).order).count = engIn.c.max_position - engIn.current_exposure
    /\ Val(Val(engOut).order).count < engIn.c.max_order_size

\* The status query just made answered exchange_active or trading_active false.
ReportsInactive(step) ==
    /\ step.name = "get_exchange_status"
    /\ step.ok
    /\ \/ Val(step.got).exchange_active = Some(FALSE)
       \/ Val(step.got).trading_active = Some(FALSE)

\* C7: a status query that reports exchange_active or trading_active false
\* takes the loop straight to its sleep with no other call made in the cycle,
\* no order placed, the snapshot files, the cycle's data and all three cache
\* values and timestamps unchanged; and the sleep changes none of them either.
C7_InactiveSkipsCycle ==
    [][/\ (pc = "status" /\ ReportsInactive(last')) =>
             /\ pc' = "sleep"
             /\ calls' = <<"get_exchange_status">>
             /\ placed' = <<>>
             /\ UNCHANGED <<cache, fetchLog, fs, loc>>
       /\ (pc = "sleep" /\ ReportsInactive(last)) =>
             /\ pc' = "status"
             /\ UNCHANGED <<cache, fetchLog, fs>>]_vars

\* A cycle was skipped while the caches and the snapshot file held the data of
\* an earlier cycle.
C7_Witness ==
    /\ pc = "sleep"
    /\ ReportsInactive(last)
    /\ cache.em.value # <<>>
    /\ cache.eob.value # <<>>
    /\ ~IsNone(cache.om.value)
    /\ ~IsNone(fs["snap"])

\* The positions of run_heartbeat from which the cycle goes on.
RunningPcs ==
    {"status", "weather", "meteo", "evmarkets", "evbooks", "resolve", "market",
     "orderbook", "balance", "positions", "orders", "exposure", "analyze", "place",
     "snapshot", "snap_write", "snap_replace"}

\* The step just taken was the call `name`, made at position `at`, and failed.
FailedAt(at, name) == pc = at /\ last'.name = name /\ ~last'.ok

\* loc' differs from loc at most in `field`, which holds `value`.
OnlyField(field, value) == loc' = [loc EXCEPT ![field] = value]

\* C8: whichever exchange calls fail, no step takes the loop out of
\* run_heartbeat: it stays at a position of the cycle or at its sleep; a
\* failed status query goes on to the weather fetch as an active exchange
\* does; every other failed call sets its own local to its empty default,
\* leaves the other locals as they are and goes on to the next step; and a
\* cycle that was not skipped has run the Opportunity Engine when it reaches
\* its sleep.
C8_FailuresDoNotAbort ==
    [][/\ pc' \in RunningPcs \cup {"sleep"}
       /\ (pc' = "sleep" /\ Len(calls') > 1) =>
             /\ ~IsNone(loc'.analysis)
             /\ \E i \in 1..Len(calls') : calls'[i] = "analyze_opportunity"
       /\ FailedAt("status", "get_exchange_status") =>
             pc' = "weather" /\ loc' = loc
       /\ (FailedAt("evmarkets", "get_event_markets_cached") /\ last'.fetched = 1) =>
             pc' = "evbooks" /\ OnlyField("event_markets", <<>>)
       /\ (FailedAt("evbooks", "get_event_orderbooks_cached") /\ last'.fetched = 1) =>
             pc' = "resolve" /\ OnlyField("event_orderbooks", <<>>)
       /\ FailedAt("resolve", "resolve_market_ticker") =>
             /\ pc' = "market"
             /\ \E t \in {get_todays_market_ticker(Today), ListedTicker} :
                   OnlyField("ticker", Some(t))
       /\ FailedAt("market", "get_market") =>
             pc' = "orderbook" /\ OnlyField("market_data", EmptyMarketData)
       /\ FailedAt("orderbook", "get_market_orderbook") =>
             pc' = "balance" /\ OnlyField("orderbook", EmptyOrderbook)
       /\ FailedAt("balance", "get_balance") =>
             pc' = "positions" /\ OnlyField("portfolio", None)
       /\ FailedAt("positions", "get_positions") =>
             pc' = "orders" /\ OnlyField("positions", None)
       /\ FailedAt("orders", "get_orders") =>
             pc' = "exposure" /\ OnlyField("orders", None)
       /\ FailedAt("exposure", "get_positions:exposure") =>
             pc' = "analyze" /\ OnlyField("current_exposure", 0)
       /\ FailedAt("place", "place_order") =>
             pc' = "snapshot" /\ loc' = loc]_vars

\* A cycle in which the event listing, the market detail, the order book and
\* the three portfolio calls all failed has run the engine and reached its
\* sleep.
C8_Witness ==
    /\ pc = "sleep"
    /\ ~IsNone(loc.analysis)
    /\ loc.event_markets = <<>>
    /\ loc.market_data = EmptyMarketData
    /\ loc.orderbook = EmptyOrderbook
    /\ IsNone(loc.portfolio)
    /\ IsNone(loc.positions)
    /\ IsNone(loc.orders)

\* C9 as stated: every cycle that is not skipped for exchange inactivity has,
\* when it reaches its sleep, replaced the snapshot file by a complete
\* snapshot of that cycle.
C9_SnapshotEveryCycle ==
    (pc = "sleep" /\ Len(calls) > 1) => fs["snap"] = Some(Doc(now, SnapChunks))

\* C10: with an override configured, the resolved ticker is the override and
\* the cycle calls neither get_series nor get_markets for the series, whatever
\* those calls would answer.
C10_OverrideWins ==
    (~IsNone(cfg.market_ticker_override) /\ Val(cfg.market_ticker_override) # EmptyTicker) =>
        /\ (~IsNone(loc.ticker) => loc.ticker = cfg.market_ticker_override)
        /\ \A i \in 1..Len(calls) : calls[i] \notin {"get_series", "get_markets:series"}

\* The ticker was just resolved under an override.
C10_Witness ==
    /\ ~IsNone(cfg.market_ticker_override)
    /\ last.name = "resolve_market_ticker"
    /\ loc.ticker = Some(Override)

-----------------------------------------------------------------------------
(* Ticker Resolver properties, over single calls (SpecResolver).             *)

\* The date part of the canonical ticker, written out for the dates the calls
\* are made on.
ExpectedDate(d) ==
    CASE d = Date(3, 11, 2026) -> "03NOV26"
      [] d = Date(31, 12, 2026) -> "31DEC26"
      [] d = Date(9, 2, 2005) -> "09FEB05"

\* What get_todays_market_ticker() returns on the day of the call.
CanonicalOf(in) == Ticker("KXHIGHMIA", ExpectedDate(in.today))

NoOverride(in) ==
    IsNone(in.c.market_ticker_override) \/ Val(in.c.market_ticker_override) = EmptyTicker

EmptyOrFails(resp) == ~resp.ok \/ Val(resp.body) = <<>>

\* The canonical ticker is absent from what the series lookup answered.
AbsentFromSeries(in) ==
    \/ ~in.seriesResp.ok
    \/ \A i \in 1..Len(Val(in.seriesResp.body)) :
          Val(in.seriesResp.body)[i].ticker # Some(CanonicalOf(in))

\* The close time of a listing element, when it carries one that parses: the
\* value of the first close-time key present, if that is a number, a digit
\* string or an ISO-8601 string.
ParsedClose(e) ==
    IF e.shape = "dict" /\ e.close # <<>> /\ e.close[1].kind \in {"int", "digits", "iso"}
    THEN Some(e.close[1].v) ELSE None

Qualifying(in) ==
    {i \in 1..Len(Val(in.marketsResp.body)) :
        /\ ~IsNone(ParsedClose(Val(in.marketsResp.body)[i]))
        /\ Val(ParsedClose(Val(in.marketsResp.body)[i])) >= in.now_ts}

\* The qualifying elements with the earliest close time.
Earliest(in) ==
    {k \in Qualifying(in) :
        \A j \in Qualifying(in) :
            Val(ParsedClose(Val(in.marketsResp.body)[k]))
               <= Val(ParsedClose(Val(in.marketsResp.body)[j]))}

HasTicker(e) == e.shape = "dict" /\ ~IsNone(e.ticker) /\ Val(e.ticker) # EmptyTicker

HasNanClose(in) ==
    \E i \in 1..Len(Val(in.marketsResp.body)) :
        /\ Val(in.marketsResp.body)[i].shape = "dict"
        /\ Val(in.marketsResp.body)[i].close # <<>>
        /\ Val(in.marketsResp.body)[i].close[1].kind = "nan"

\* The listing is consulted and lists something.
ListingDecides(in) ==
    /\ NoOverride(in)
    /\ in.c.series_ticker \notin {None, Some("")}
    /\ AbsentFromSeries(in)
    /\ in.marketsResp.ok
    /\ Val(in.marketsResp.body) # <<>>

\* C11: with no override, when the series lookup answers nothing or fails and
\* the open-markets listing answers nothing or fails, resolve_market_ticker
\* returns the ticker get_todays_market_ticker() computes for the day.
C11_FallbackToCanonical ==
    (/\ pc = "resolver_done"
     /\ NoOverride(engIn)
     /\ EmptyOrFails(engIn.seriesResp)
     /\ EmptyOrFails(engIn.marketsResp))
    => /\ Val(engOut).ticker = CanonicalOf(engIn)
       /\ ~Val(engOut).raised

\* Both lookups were made and failed, and the call returned the canonical
\* ticker of the last day of the year.
C11_Witness ==
    /\ pc = "resolver_done"
    /\ NoOverride(engIn)
    /\ engIn.c.series_ticker = Some("KXHIGHMIA")
    /\ ~engIn.seriesResp.ok
    /\ ~engIn.marketsResp.ok
    /\ Val(engOut).calls = <<"get_series", "get_markets:series">>
    /\ Val(engOut).ticker = Ticker("KXHIGHMIA", "31DEC26")

\* C12: for every configured series identifier the ticker used as the
\* fallback is that identifier, a hyphen, and the date as two-digit day,
\* upper-cased month abbreviation and two-digit year.
C12_CanonicalFromSeries ==
    (/\ pc = "resolver_done"
     /\ NoOverride(engIn)
     /\ engIn.c.series_ticker \notin {None, Some("")}
     /\ EmptyOrFails(engIn.seriesResp)
     /\ EmptyOrFails(engIn.marketsResp))
    => Val(engOut).ticker = Ticker(Val(engIn.c.series_ticker), ExpectedDate(engIn.today))

\* C13 as stated: with a non-empty listing the call returns the ticker of an
\* entry with the earliest parseable close time >= now, and the first listed
\* market's ticker when no entry qualifies.
C13_AsStated ==
    (pc = "resolver_done" /\ ListingDecides(engIn))
    => LET m == Val(engIn.marketsResp.body)
       IN IF Qualifying(engIn) # {}
          THEN \E k \in Earliest(engIn) : m[k].ticker = Some(Val(engOut).ticker)
          ELSE m[1].ticker = Some(Val(engOut).ticker)

\* C13: with no override, the canonical ticker absent from the series list
\* and a non-empty listing, the call returns the ticker of an entry with the
\* earliest close time among the dict entries whose close time (the first
\* close-time key present) parses and is >= now, or of the first listed entry
\* when none qualifies, provided that entry is a dict with a non-empty ticker;
\* it returns the canonical ticker when that entry has no ticker, when the
\* first listed entry is taken and is not a dict, and when some entry's close
\* time is a NaN or infinite number.
C13_EarliestUpcoming ==
    (pc = "resolver_done" /\ ListingDecides(engIn))
    => LET m == Val(engIn.marketsResp.body)
           t == Val(engOut).ticker
           from(e) == IF HasTicker(e) THEN Val(e.ticker) ELSE CanonicalOf(engIn)
       IN IF HasNanClose(engIn) THEN t = CanonicalOf(engIn)
          ELSE IF Qualifying(engIn) # {} THEN \E k \in Earliest(engIn) : t = from(m[k])
          ELSE t = from(m[1])

\* Two entries qualify, the second closes earlier, and its ticker is returned.
C13_Witness ==
    /\ pc = "resolver_done"
    /\ ListingDecides(engIn)
    /\ Len(Val(engIn.marketsResp.body)) = 2
    /\ Qualifying(engIn) = {1, 2}
    /\ Earliest(engIn) = {2}
    /\ HasTicker(Val(engIn.marketsResp.body)[1])
    /\ HasTicker(Val(engIn.marketsResp.body)[2])
    /\ Val(engOut).ticker = Val(Val(engIn.marketsResp.body)[2].ticker)
    /\ Val(engOut).ticker # Val(Val(engIn.marketsResp.body)[1].ticker)

\* C14: whatever the configuration, whichever lookups fail and whatever the
\* series and listing payloads hold, resolve_market_ticker returns without
\* raising and the ticker it returns is not empty.
C14_NeverRaises ==
    pc = "resolver_done" => (~Val(engOut).raised /\ Val(engOut).ticker # EmptyTicker)

\* The series lookup failed and the listing's only entry has no close time
\* and is no dict: the call still returned a ticker, the canonical one.
C14_Witness ==
    /\ pc = "resolver_done"
    /\ NoOverride(engIn)
    /\ ~engIn.seriesResp.ok
    /\ engIn.marketsResp.ok
    /\ Val(engIn.marketsResp.body) = <<OtherEntry>>
    /\ ~Val(engOut).raised
    /\ Val(engOut).ticker = CanonicalOf(engIn)

-----------------------------------------------------------------------------
(* Condition Parser and Probability Model properties (SpecDomain).           *)

Called(fn) == pc = "domain_done" /\ engIn.fn = fn

\* C15: the three titles of the tests, written with "°F", parse to
\* range(72, 73), gte(75) and lte(65).
C15_DegreeTitles ==
    Called("parse_market_condition") =>
        /\ engIn.title = TitleBetween("°F") =>
              Val(engOut) = [type |-> "range", threshold |-> None,
                             low |-> Some(72), high |-> Some(73)]
        /\ engIn.title = TitleAtLeast("°F") => Val(engOut) = Gte(Some(75))
        /\ engIn.title = TitleAtMost("°F") => Val(engOut) = Lte(Some(65))

\* C16: estimate_prob_reach_threshold returns a value in [0.05, 0.95] and
\* estimate_prob_no_new_high a value in [0.4, 0.98], for every diff and hour.
C16_ProbabilityBounds ==
    /\ Called("estimate_prob_reach_threshold") =>
          (50000 <= Val(engOut) /\ Val(engOut) <= 950000)
    /\ Called("estimate_prob_no_new_high") =>
          (400000 <= Val(engOut) /\ Val(engOut) <= 980000)

\* A call whose unclamped product (0.9 * 1.15) exceeds 0.95 returned 0.95.
C16_Witness ==
    /\ Called("estimate_prob_reach_threshold")
    /\ engIn.diff = 1
    /\ engIn.hour = 12
    /\ Val(engOut) = 950000

\* C17: for every diff <= 0 and every hour estimate_prob_reach_threshold
\* returns exactly 0.95.
C17_NonPositiveDiff ==
    (Called("estimate_prob_reach_threshold") /\ engIn.diff <= 0) => Val(engOut) = 950000

\* diff = 0 late in the evening, where a positive diff would give far less.
C17_Witness ==
    /\ Called("estimate_prob_reach_threshold")
    /\ engIn.diff = 0
    /\ engIn.hour = 21
    /\ Val(engOut) = 950000

\* C18: for gte(t), estimate_prob_yes returns 0.99 when high_today >= t, at
\* every hour, and otherwise estimate_prob_reach_threshold(t - high_today,
\* hour), a defined value in [0.05, 0.95].
C18_GteProbability ==
    (/\ Called("estimate_prob_yes")
     /\ engIn.condition.type = "gte"
     /\ ~IsNone(engIn.condition.threshold)
     /\ ~IsNone(engIn.high_today))
    => LET t == Val(engIn.condition.threshold)
           h == Val(engIn.high_today)
       IN IF h >= t THEN Val(engOut) = Some(990000)
          ELSE /\ Val(engOut) = Some(estimate_prob_reach_threshold(t - h, engIn.hour))
               /\ 50000 <= Val(Val(engOut))
               /\ Val(Val(engOut)) <= 950000

\* gte(75) with a high of 75 at hour 20: the threshold is met exactly.
C18_Witness ==
    /\ Called("estimate_prob_yes")
    /\ engIn.condition = Gte(Some(75))
    /\ engIn.high_today = Some(75)
    /\ engIn.hour = 20
    /\ Val(engOut) = Some(990000)

-----------------------------------------------------------------------------
(* Web application properties (SpecWeb).                                     *)

\* C19: every GET /api/snapshot made while the configured file exists is
\* answered 200 with the content the file holds at that time, and 404 when it
\* does not exist.
C19_ServesCurrentFile ==
    [][snapshot =>
          IF ~IsNone(fs[environ.BOT_SNAPSHOT_FILE])
          THEN http' = Response(200, fs[environ.BOT_SNAPSHOT_FILE])
          ELSE http'.code = 404]_vars

-----------------------------------------------------------------------------
(* Run loop: the ticker of a cycle (Spec).                                   *)

UsesOf(call) == {i \in 1..Len(tickerArgs) : tickerArgs[i].call = call}

\* The positions of run_heartbeat after "ticker = self.resolve_market_ticker()".
AfterResolve ==
    {"market", "orderbook", "balance", "positions", "orders", "exposure", "analyze",
     "place", "snapshot", "snap_write", "snap_replace"}

\* C20: in every cycle the ticker is resolved exactly once, and the market
\* detail fetch, the order-book fetch, the exposure lookup and the order
\* submission of the cycle are each made with that ticker.
C20_OneTickerPerCycle ==
    /\ Cardinality(UsesOf("resolve_market_ticker")) <= 1
    /\ pc \in AfterResolve =>
          /\ Cardinality(UsesOf("resolve_market_ticker")) = 1
          /\ tickerArgs[1].call = "resolve_market_ticker"
          /\ loc.ticker = Some(tickerArgs[1].ticker)
    /\ \A i \in 1..Len(tickerArgs) : tickerArgs[i].ticker = tickerArgs[1].ticker
    /\ \A i \in 1..Len(placed) : placed[i].ticker = tickerArgs[1].ticker
    /\ \A i \in 1..Len(calls) :
          /\ calls[i] = "get_market" => UsesOf("get_market") # {}
          /\ calls[i] = "get_market_orderbook" => UsesOf("get_market_orderbook") # {}
          /\ calls[i] = "get_positions:exposure" => UsesOf("get_position_exposure") # {}
          /\ calls[i] = "place_order" => UsesOf("place_order") # {}

\* A cycle that resolved the ticker from the open-markets listing, fetched
\* with it and submitted an order for it.
C20_Witness ==
    /\ pc = "snapshot"
    /\ [i \in 1..Len(tickerArgs) |-> tickerArgs[i].call]
          = <<"resolve_market_ticker", "get_market", "get_market_orderbook",
              "get_position_exposure", "place_order">>
    /\ tickerArgs[1].ticker = ListedTicker
    /\ Len(placed) = 1
    /\ placed[1].ticker = ListedTicker

-----------------------------------------------------------------------------
(* The order of the steps of one cycle (bot.py 617-750).                    *)

\* The place of each call of the loop in the order of one cycle.
CallRank(call) ==
    CASE call = "get_exchange_status" -> 1
      [] call = "get_miami_data" -> 2
      [] call \in {"get_daily_highs", "get_markets:event",
                   "get_market_orderbook:event"} -> 3
      [] call \in {"get_series", "get_markets:series"} -> 4
      [] call \in {"get_market", "get_market_orderbook"} -> 5
      [] call \in {"get_balance", "get_positions", "get_orders"} -> 6
      [] call = "get_positions:exposure" -> 7
      [] call = "analyze_opportunity" -> 8
      [] call = "place_order" -> 9
      [] OTHER -> 0

\* The place of each position of the loop in the same order; the snapshot
\* write is 10 and the sleep 11.
PcRank(p) ==
    CASE p = "status" -> 1
      [] p = "weather" -> 2
      [] p \in {"meteo", "evmarkets", "evbooks"} -> 3
      [] p = "resolve" -> 4
      [] p \in {"market", "orderbook"} -> 5
      [] p \in {"balance", "positions", "orders"} -> 6
      [] p = "exposure" -> 7
      [] p = "analyze" -> 8
      [] p = "place" -> 9
      [] p \in {"snapshot", "snap_write", "snap_replace"} -> 10
      [] p = "sleep" -> 11
      [] OTHER -> 12

\* The calls made so far in the cycle are in the order of the cycle.
CallsInOrder(cs) ==
    \A i, j \in 1..Len(cs) : i < j => CallRank(cs[i]) <= CallRank(cs[j])

\* C21: within a cycle the steps come in the order status, weather, cache
\* refreshes, ticker resolution, market and order book, portfolio, exposure,
\* engine, order submission, snapshot write, sleep: every step moves the loop
\* forward in that order and the calls of the cycle are made in that order;
\* only a skipped cycle goes from the status query straight to the sleep.
\* Cycles do not overlap: the loop returns to the status query only from the
\* sleep, with the calls of the cycle before all made, and nothing of the
\* cycle runs during the sleep.
C21_StepOrder ==
    [][/\ CallsInOrder(calls')
       /\ pc # "sleep" => PcRank(pc') >= PcRank(pc)
       /\ (pc # "sleep" /\ pc' = "sleep")
            => \/ pc \in {"snapshot", "snap_write", "snap_replace"}
               \/ pc = "status" /\ last'.name = "get_exchange_status"
       /\ (pc' = "status" /\ pc # "status") => pc = "sleep"
       /\ pc = "sleep" => /\ pc' = "status"
                          /\ calls' = <<>>
                          /\ now' > now]_vars

\* A second cycle has run every step, an order submission included, and has
\* reached its sleep.
C21_Witness ==
    /\ pc = "sleep"
    /\ now > StartTime
    /\ calls = <<"get_exchange_status", "get_miami_data", "get_daily_highs",
                 "get_market", "get_market_orderbook", "get_balance",
                 "get_positions", "get_orders", "get_positions:exposure",
                 "analyze_opportunity", "place_order">>

-----------------------------------------------------------------------------
(* The decisions of the Opportunity Engine (bot.py 383-507).                *)

\* The decision is the one the weather gate returns.
InsufficientWeather(a) ==
    /\ ~a.has_opportunity
    /\ a.reasoning = <<"Insufficient weather data">>

\* C22 as stated: analyze_opportunity reports "Insufficient weather data",
\* with no opportunity, exactly when current_temp or high_today is absent from
\* the reading; with both present, whatever integers they are, it goes on to
\* parse the condition.
C22_AbsentOnly ==
    pc = "engine_done" =>
        (InsufficientWeather(Val(engOut))
           <=> (IsNone(engIn.weather_data.current_temp)
                \/ IsNone(engIn.weather_data.high_today)))

\* C23: every decision has has_opportunity true exactly when an order is
\* present; a present order has a price in 1..99, a side yes or no, and a
\* count between 1 and max_order_size that fits in max_position -
\* current_exposure; a decision without an opportunity has confidence 0.
C23_DecisionShape ==
    pc = "engine_done" =>
        LET a == Val(engOut)
        IN /\ a.has_opportunity <=> ~IsNone(a.order)
           /\ ~IsNone(a.order) =>
                /\ Val(a.order).price \in 1..99
                /\ Val(a.order).side \in {"yes", "no"}
                /\ Val(a.order).count >= 1
                /\ Val(a.order).count <= engIn.c.max_order_size
                /\ Val(a.order).count <= engIn.c.max_position - engIn.current_exposure
           /\ ~a.has_opportunity => a.confidence = 0

\* An order priced from a last traded price of 0 cents, submitted at 1 cent.
C23_Witness ==
    /\ pc = "engine_done"
    /\ ~IsNone(engIn.market_data.market)
    /\ YesPriceOf(engIn) = Some(0)
    /\ Val(engOut).has_opportunity
    /\ Val(Val(engOut).order).side = "yes"
    /\ Val(Val(engOut).order).price = 1
    /\ Val(Val(engOut).order).count = engIn.c.max_position - engIn.current_exposure

\* The EVs of the two sides as the pricing rule gives them: <<EV YES, EV NO>>.
SideEvs(in) ==
    LET cond == parse_market_condition(Val(Val(in.market_data.market).title))
        prob == Val(estimate_prob_yes(cond, in.weather_data.high_today, in.hour))
    IN <<Ev(prob, YesPriceOf(in), in.c.fee_cents),
         Ev(Micro - prob, NoPriceOf(in), in.c.fee_cents)>>

\* C24: each side is priced from its top bid, else YES from the last traded
\* price and NO from 100 - yes_price; the decision takes the side with the
\* strictly higher EV, YES when the EVs are equal, and the only priced side
\* when one side has no price.  Seen in every decision that carries an order:
\* its side, its limit price (clamped to 1..99) and its confidence are those
\* of that side.
C24_SideSelection ==
    (pc = "engine_done" /\ ~IsNone(BestEvOf(engIn)) /\ Val(engOut).has_opportunity) =>
        LET a == Val(engOut)
            ev_yes == SideEvs(engIn)[1]
            ev_no == SideEvs(engIn)[2]
            takes_no == IF IsNone(ev_yes) THEN TRUE
                        ELSE IF IsNone(ev_no) THEN FALSE
                        ELSE Val(ev_no) > Val(ev_yes)
        IN IF takes_no
           THEN /\ Val(a.order).side = "no"
                /\ a.recommendation = Some("no")
                /\ Val(a.order).price = Max(1, Min(99, Val(NoPriceOf(engIn))))
                /\ a.confidence = Round2(Val(ev_no))
           ELSE /\ Val(a.order).side = "yes"
                /\ a.recommendation = Some("yes")
                /\ Val(a.order).price = Max(1, Min(99, Val(YesPriceOf(engIn))))
                /\ a.confidence = Round2(Val(ev_yes))

\* Both sides are priced from their top bids, the two EVs are equal and the
\* order is for YES.
C24_Witness ==
    /\ pc = "engine_done"
    /\ ~IsNone(BestEvOf(engIn))
    /\ ~IsNone(SideEvs(engIn)[1])
    /\ SideEvs(engIn)[1] = SideEvs(engIn)[2]
    /\ Val(engIn.orderbook.orderbook).yes # <<>>
    /\ Val(engIn.orderbook.orderbook).no # <<>>
    /\ Val(engOut).has_opportunity
    /\ Val(Val(engOut).order).side = "yes"

\* The trace entries that name the decision point at which the engine stopped.
StopEntries ==
    {"Insufficient weather data",
     "Market condition not parsed; skipping EV model",
     "Probability model could not estimate outcome",
     "No usable price data; skipping EV model",
     "No edge >= min_edge_cents; skipping trade",
     "Position limit reached; skipping trade"}

\* C28: every call returns a decision; its reasoning trace is not empty, and
\* the trace of a decision without an opportunity ends with the entry that
\* names the decision point that stopped it.
C28_TraceNamesStop ==
    pc = "engine_done" =>
        /\ ~IsNone(engOut)
        /\ Val(engOut).reasoning # <<>>
        /\ ~Val(engOut).has_opportunity =>
             Val(engOut).reasoning[Len(Val(engOut).reasoning)] \in StopEntries

\* A decision stopped at the condition parser, after the context entries.
C28_Witness ==
    /\ pc = "engine_done"
    /\ ~Val(engOut).has_opportunity
    /\ Len(Val(engOut).reasoning) > 2
    /\ Val(engOut).reasoning[Len(Val(engOut).reasoning)]
         = "Market condition not parsed; skipping EV model"

\* What the title holds, read off its tokens: a range word, a gte keyword,
\* an lte keyword.
HasRangeWord(title) == \E i \in 1..Len(title) : title[i] \in {Word("between"), Word(" to ")}
HasGteWord(title) == \E i \in 1..Len(title) : \E k \in GteKeywords : title[i] = Word(k)
HasLteWord(title) == \E i \in 1..Len(title) : \E k \in LteKeywords : title[i] = Word(k)

\* C25: parse_market_condition applies a fixed precedence.  A title with at
\* least two extracted temperatures and "between" or " to " is the range from
\* the smaller to the larger of the first two, whatever keywords it also
\* holds; otherwise a title with a gte keyword is gte of the first
\* temperature, or of none, even with an lte keyword; otherwise a title with
\* an lte keyword is lte; otherwise it is unknown when a temperature was
\* extracted, and none when not.
C25_ParsePrecedence ==
    Called("parse_market_condition") =>
        LET title == engIn.title
            temps == ExtractTemps(title)
            first == IF temps = <<>> THEN None ELSE Some(temps[1])
            out == Val(engOut)
        IN IF Len(temps) >= 2 /\ HasRangeWord(title)
           THEN /\ out.type = "range"
                /\ out.low = Some(Min(temps[1], temps[2]))
                /\ out.high = Some(Max(temps[1], temps[2]))
           ELSE IF HasGteWord(title) THEN out = Gte(first)
           ELSE IF HasLteWord(title) THEN out = Lte(first)
           ELSE IF temps # <<>> THEN out.type = "unknown"
           ELSE out = NoCondition

\* A title with "between", a gte keyword, an lte keyword and the temperatures
\* 80 and 70 has been parsed to range(70, 80).
C25_Witness ==
    /\ Called("parse_market_condition")
    /\ engIn.title = MixedTitle("between", "at least", "at most", <<80, 70>>)
    /\ Val(engOut).type = "range"
    /\ Val(engOut).low = Some(70)
    /\ Val(engOut).high = Some(80)

-----------------------------------------------------------------------------
(* Event order books (bot.py 308-345).                                      *)

\* The tickers of the event markets a batch asks an order book for.
BatchTickers(markets) ==
    LET within == SubSeq(markets, 1, Min(Len(markets), cfg.event_orderbook_limit))
    IN {Val(within[i].ticker) : i \in {j \in 1..Len(within) : Truthy(within[j].ticker)}}

BookTickers(books) == {books[i].ticker : i \in 1..Len(books)}

\* C26 as stated: after a batch of order book fetches, whether or not some of
\* them failed, the result holds an entry for every contract of the batch:
\* the fetched book of each contract whose fetch succeeded and an empty book
\* for each contract whose fetch failed.
C26_FailedFetchKeptEmpty ==
    (last.name = "get_event_orderbooks_cached" /\ last.fetched = 1) =>
        BookTickers(loc.event_orderbooks) = BatchTickers(loc.event_markets)

\* C30 as stated: in every cycle each entry of event_orderbooks has a ticker
\* that is in the event_markets list of the same cycle.
C30_BooksWithinListing ==
    \A i \in 1..Len(loc.event_orderbooks) :
        \E j \in 1..Len(loc.event_markets) :
            loc.event_markets[j].ticker = Some(loc.event_orderbooks[i].ticker)

-----------------------------------------------------------------------------
(* Exposure (bot.py 234-260).                                               *)

\* The dict entries of the answered list that are for the ticker asked about,
\* and those of them that hold a number in one of the fields the code reads.
MatchingEntries(in) ==
    LET ps == Val(in.positionsResp.body)
    IN {i \in 1..Len(ps) : ps[i].shape = "dict" /\ ps[i].ticker = Some(in.ticker)}
HoldsNumber(f) ==
    \/ \E k \in 1..Len(PositionKeys) : ~IsNone(f[PositionKeys[k]])
    \/ ~IsNone(f.yes) \/ ~IsNone(f.yes_position)
    \/ ~IsNone(f.no) \/ ~IsNone(f.no_position)

\* |x| of an optional number, 0 when it is absent.
Magnitude(x) == IF IsNone(x) THEN 0 ELSE IF Val(x) < 0 THEN 0 - Val(x) ELSE Val(x)

\* C27: get_position_exposure returns a non-negative integer: 0 when the
\* positions lookup fails, 0 when no entry matches the ticker, and for a
\* matching entry the magnitude of the first present of position, count,
\* size, quantity, net_position, or else the sum of the absolute yes and no
\* sub-positions (0 when it holds none; the first matching entry that holds a
\* number is the one that counts).
C27_Exposure ==
    pc = "exposure_fn_done" =>
        LET out == Val(engOut)
            ps == Val(engIn.positionsResp.body)
            valued == {i \in MatchingEntries(engIn) : HoldsNumber(ps[i].fields)}
        IN /\ out \in Nat
           /\ ~engIn.positionsResp.ok => out = 0
           /\ (engIn.positionsResp.ok /\ valued = {}) => out = 0
           /\ (engIn.positionsResp.ok /\ valued # {}) =>
                LET f == ps[CHOOSE i \in valued : \A j \in valued : i <= j].fields
                IN \/ \E k \in 1..Len(PositionKeys) :
                        /\ ~IsNone(f[PositionKeys[k]])
                        /\ \A j \in 1..(k - 1) : IsNone(f[PositionKeys[j]])
                        /\ out = Magnitude(f[PositionKeys[k]])
                   \/ /\ \A k \in 1..Len(PositionKeys) : IsNone(f[PositionKeys[k]])
                      /\ out = Magnitude(IF Falsy(f.yes) THEN f.yes_position ELSE f.yes)
                               + Magnitude(IF Falsy(f.no) THEN f.no_position ELSE f.no)

\* The matching entry comes after one for another ticker and holds a negative
\* count and a net_position: the exposure is the magnitude of the count.
C27_Witness ==
    /\ pc = "exposure_fn_done"
    /\ engIn.positionsResp.ok
    /\ Len(Val(engIn.positionsResp.body)) = 2
    /\ MatchingEntries(engIn) = {2}
    /\ Val(engIn.positionsResp.body)[2].fields.count = Some(0 - 3)
    /\ Val(engIn.positionsResp.body)[2].fields.net_position = Some(7)
    /\ Val(engOut) = 3

-----------------------------------------------------------------------------
(* The position limit over cycles (bot.py 234-260, 490-494, 652-694).       *)

\* C29 as stated: with auto-trading enabled, over any sequence of cycles, the
\* contracts held for the ticker plus the contracts of the orders the bot has
\* submitted for it that its positions do not yet show never exceed
\* max_position.
C29_WithinLimit ==
    ~IsNone(exchange) =>
        Val(exchange).held + Val(exchange).resting <= cfg.max_position

====
